---- MODULE Spec2Model ----
(***************************************************************************)
(* Model of the Moodle -> Supabase course synchronisation                  *)
(* (POST /api/moodle/sync/course/:courseId).  The handler exists in three  *)
(* revisions: src/api-server.js:806 and src/unnamed/part_000:1271 (same    *)
(* logic, revision "r1") and src/unnamed/part_000:4071 (adds the groups    *)
(* step and records per-student errors, revision "r2").                    *)
(*                                                                         *)
(* A JavaScript value that may be null/undefined is a sequence of length   *)
(* at most one (<<>> is null, <<v>> is v); an optional field of a remote   *)
(* JSON object is a record field that may be absent from the DOMAIN.       *)
(* One action is one awaited call of the handler together with the         *)
(* synchronous code that follows it up to the next await.                  *)
(*                                                                         *)
(* Specifications: Spec (syncs of one course, one after the other),        *)
(* FleetSpec (the all-courses driver), StatsSpec (the statistics of the    *)
(* upload and of the dashboard script, with its saveToSupabase),           *)
(* UploadSpec (uploads of two courses), PipelinesSpec (sync, upload and    *)
(* dashboard on one store) and OverlapSpec (two syncs of a course that     *)
(* overlap while the LMS changes its data).                                *)
(***************************************************************************)
EXTENDS Integers, Sequences, FiniteSets, TLC

VARIABLES rev, remote, now, faults, db, run, fleet, job

vars == <<rev, remote, now, faults, db, run, fleet, job>>

\* ---------------------------------------------------------------- bounds
MaxRuns == 2
MaxFaults == 1
\* the source batches by 100; the model batches by a smaller number so that
\* several batches occur with a handful of records
batchSize == 2

Runs == 1..MaxRuns

Revisions == {"r1", "r2"}

\* ------------------------------------------------------- general helpers
Null == <<>>

Range(s) == {s[n] : n \in DOMAIN s}

Min(a, b) == IF a < b THEN a ELSE b

\* Array.prototype.slice(from, to) with 0-based, end-exclusive indices
Slice(s, from, to) == SubSeq(s, from + 1, Min(to, Len(s)))

\* ts ? new Date(ts * 1000) : null   (milliseconds since the epoch)
ToDate(ts) == IF ts = 0 THEN Null ELSE <<ts * 1000>>

\* new Date() at clock value t
NewDate(t) == <<t * 1000>>

\* 1000 * 60 * 60 * 24
DayMs == 1000 * 60 * 60 * 24

DaySeconds == DayMs \div 1000

\* the clock (in seconds) at which the statistics are computed
StatsNow == 20 * DaySeconds

\* the offsets from UTC (in seconds) of the server's time zone: UTC, +05:30
TimeZones == {0, 19800}

\* ------------------------------------------------------------ remote LMS
\* core_course_get_courses: the site course, a visible and a hidden course
RemoteCourses ==
  << [id |-> 1, shortname |-> "site", startdate |-> 0, visible |-> 1],
     [id |-> 2, shortname |-> "c2",   startdate |-> 5, visible |-> 1],
     [id |-> 3, shortname |-> "c3",   startdate |-> 0, visible |-> 0] >>

\* the :courseId route parameters tried (9 is not a course of the LMS)
CourseIdParams == {2, 9}

StudentRole == [shortname |-> "student", roleid |-> 5]
LearnerRole == [shortname |-> "learner", roleid |-> 5]
TeacherRole == [shortname |-> "editingteacher", roleid |-> 3]

\* the users' last course access is 3 days, 10 days and 6 days 22 hours
\* before StatsNow; user 40 never accessed the course
User10 == [id |-> 10, firstname |-> "Ann", lastname |-> "A", firstaccess |-> 0,
           lastcourseaccess |-> StatsNow - 3 * DaySeconds,
           roles |-> <<StudentRole>>]
User20 == [id |-> 20, firstname |-> "Bob", lastname |-> "B", firstaccess |-> 7,
           lastcourseaccess |-> StatsNow - 10 * DaySeconds,
           roles |-> <<TeacherRole, LearnerRole>>]
User30 == [id |-> 30, firstname |-> "Tea", lastname |-> "T", firstaccess |-> 3,
           lastcourseaccess |-> StatsNow - 7 * DaySeconds + 2 * 3600,
           roles |-> <<TeacherRole>>]
User40 == [id |-> 40, firstname |-> "Gus", lastname |-> "G", firstaccess |-> 0]

\* core_enrol_get_enrolled_users answers
UserLists == { <<User30, User40>>, <<User10, User30, User20>> }

Module101 == [id |-> 101, name |-> "Quiz 1", modname |-> "quiz", visible |-> 1,
              completion |-> 1, completionexpected |-> 0]
Module102 == [id |-> 102, name |-> "Page 2", modname |-> "page", visible |-> 0,
              completionexpected |-> 9]
Module102t == [id |-> 102, name |-> "Page 2", modname |-> "page", visible |-> 1,
               completion |-> 2, completionexpected |-> 9]

\* core_course_get_contents answers
ContentLists ==
  { << [id |-> 50, section |-> 0, name |-> "General"] >>,
    << [id |-> 50, section |-> 0, name |-> "General", modules |-> <<>>],
       [id |-> 51, section |-> 1, name |-> "Topic 1",
        modules |-> <<Module101, Module102>>] >>,
    << [id |-> 51, section |-> 1, name |-> "Topic 1", modules |-> <<Module101>>],
       [id |-> 52, section |-> 2, name |-> "Topic 2", modules |-> <<Module102t>>] >> }

\* core_completion_get_activities_completion_status answers (the statuses):
\* student 10 has no status, or two statuses of which one has no state, or
\* three statuses of which one is of an activity the course does not list
StatusLists ==
  { <<>>,
    << [cmid |-> 101, timecompleted |-> 0, tracking |-> 1],
       [cmid |-> 102, state |-> 1, timecompleted |-> 60, tracking |-> 2] >>,
    << [cmid |-> 102, state |-> 1, timecompleted |-> 20, tracking |-> 1],
       [cmid |-> 199, state |-> 0, timecompleted |-> 0, tracking |-> 2],
       [cmid |-> 101, state |-> 2, timecompleted |-> 35, tracking |-> 1] >> }

Statuses20 ==
  << [cmid |-> 101, state |-> 2, timecompleted |-> 70, tracking |-> 2],
     [cmid |-> 102, state |-> 3, timecompleted |-> 30, tracking |-> 1] >>

\* core_group_get_course_groups answers
GroupLists == { <<>>, << [id |-> 7, name |-> "Group A"] >> }

\* messages of the errors the LMS client throws (callFunction)
NoCriteriaMessage == "No completion criteria set for this course"
OtherMessage == "timeout of 30000ms exceeded"
StoreMessage == "relation does not exist"

\* a find that falls back to the first element when nothing matches
FindCourse_first(courses, courseId) ==
  IF \E n \in DOMAIN courses : courses[n].id = courseId
  THEN <<courses[CHOOSE n \in DOMAIN courses : courses[n].id = courseId]>>
  ELSE <<courses[1]>>

\* ------------------------------------------------- step 1: the course row
\* courses.find(c => c.id === parseInt(courseId)): <<>> when there is none
FindCourse(courses, courseId) ==
  IF \E n \in DOMAIN courses : courses[n].id = courseId
  THEN LET first == CHOOSE n \in DOMAIN courses :
                      /\ courses[n].id = courseId
                      /\ \A m \in DOMAIN courses : courses[m].id = courseId => n <= m
       IN <<courses[first]>>
  ELSE Null

courseData(course, t) ==
  [course_id  |-> course.id,
   short_name |-> course.shortname,
   start_date |-> ToDate(course.startdate),
   visible    |-> (course.visible = 1),
   updated_at |-> NewDate(t)]

\* ------------------------------------------------ step 2: the enrollments
\* a filter that only tests that the user has a roles array
IsStudent_anyRole(user) == "roles" \in DOMAIN user

\* user.roles && user.roles.some(r => r.shortname === 'student' || r.roleid === 5)
IsStudent(user) ==
  /\ "roles" \in DOMAIN user
  /\ \E n \in DOMAIN user.roles :
        user.roles[n].shortname = "student" \/ user.roles[n].roleid = 5

FilterStudents(enrolledUsers) == SelectSeq(enrolledUsers, IsStudent)

\* student.firstaccess ? new Date(student.firstaccess * 1000) : new Date()
EnrollmentDate(student, t) ==
  IF student.firstaccess = 0 THEN NewDate(t) ELSE ToDate(student.firstaccess)

EnrollmentRow(student, courseId, t) ==
  [course_id       |-> courseId,
   student_id      |-> student.id,
   student_name    |-> <<student.firstname, student.lastname>>,
   enrollment_date |-> EnrollmentDate(student, t),
   role            |-> "student",
   status          |-> "active",
   updated_at      |-> NewDate(t)]

enrollmentsData(students, courseId, t) ==
  [n \in 1..Len(students) |-> EnrollmentRow(students[n], courseId, t)]

\* ------------------------------------------------- step 3: the activities
\* (module.completion || 0) > 0
HasCompletion(module) ==
  IF "completion" \in DOMAIN module THEN module.completion > 0 ELSE FALSE

ActivityRow(section, module, courseId, t) ==
  [course_id           |-> courseId,
   activity_id         |-> module.id,
   section_id          |-> section.id,
   section_number      |-> section.section,
   section_name        |-> section.name,
   activity_name       |-> module.name,
   activity_type       |-> module.modname,
   visible             |-> (module.visible = 1),
   has_completion      |-> HasCompletion(module),
   completion_expected |-> ToDate(module.completionexpected),
   updated_at          |-> NewDate(t)]

\* if (section.modules && section.modules.length > 0) section.modules.forEach(...)
SectionActivities(section, courseId, t) ==
  IF "modules" \in DOMAIN section /\ Len(section.modules) > 0
  THEN [n \in 1..Len(section.modules) |->
          ActivityRow(section, section.modules[n], courseId, t)]
  ELSE <<>>

RECURSIVE FlattenContents(_, _, _)
FlattenContents(courseContents, courseId, t) ==
  IF Len(courseContents) = 0 THEN <<>>
  ELSE SectionActivities(Head(courseContents), courseId, t)
         \o FlattenContents(Tail(courseContents), courseId, t)

\* ------------------------------------------------ step 4: the completions
\* allActivities.find(a => a.activity_id === status.cmid)
FindActivity(allActivities, cmid) ==
  IF \E n \in DOMAIN allActivities : allActivities[n].activity_id = cmid
  THEN LET first == CHOOSE n \in DOMAIN allActivities :
                      /\ allActivities[n].activity_id = cmid
                      /\ \A m \in DOMAIN allActivities :
                            allActivities[m].activity_id = cmid => n <= m
       IN <<allActivities[first]>>
  ELSE Null

\* status.state || 0
CompletionState(status) == IF "state" \in DOMAIN status THEN status.state ELSE 0

\* a strict comparison in place of >=
IsCompleted_strict(status) ==
  IF "state" \in DOMAIN status THEN status.state > 1 ELSE FALSE

\* status.state >= 1   (undefined >= 1 is false)
IsCompleted(status) == IF "state" \in DOMAIN status THEN status.state >= 1 ELSE FALSE

\* status.state === 2
IsPassed(status) == IF "state" \in DOMAIN status THEN status.state = 2 ELSE FALSE

\* status.state === 3
IsFailed(status) == IF "state" \in DOMAIN status THEN status.state = 3 ELSE FALSE

CompletionRow(status, student, allActivities, courseId, t) ==
  LET activity == FindActivity(allActivities, status.cmid) IN
  [course_id        |-> courseId,
   student_id       |-> student.id,
   activity_id      |-> status.cmid,
   activity_name    |-> IF activity # Null THEN activity[1].activity_name ELSE "",
   activity_type    |-> IF activity # Null THEN activity[1].activity_type ELSE "",
   completion_state |-> CompletionState(status),
   is_completed     |-> IsCompleted(status),
   is_passed        |-> IsPassed(status),
   is_failed        |-> IsFailed(status),
   time_completed   |-> ToDate(status.timecompleted),
   tracking_type    |-> status.tracking,
   updated_at       |-> NewDate(t)]

\* activitiesCompletion.statuses.forEach(status => allCompletions.push({...}))
StudentCompletions(statuses, student, allActivities, courseId, t) ==
  [n \in 1..Len(statuses) |->
     CompletionRow(statuses[n], student, allActivities, courseId, t)]

\* a catch that treats every message alike
IncludesNoCompletionCriteria_never(message) == FALSE

\* error.message.includes('No completion criteria')
IncludesNoCompletionCriteria(message) == message = NoCriteriaMessage

\* ---------------------------------------------- step 5: the course summary
trackableActivities(allActivities) ==
  SelectSeq(allActivities, LAMBDA a : a.has_completion)

RECURSIVE SeqOfSet(_)
SeqOfSet(S) ==
  IF S = {} THEN <<>>
  ELSE LET x == CHOOSE y \in S : TRUE IN <<x>> \o SeqOfSet(S \ {x})

\* a summary step that selects the student's completed records from the store
studentCompletions_persisted(allCompletions, student) ==
  SeqOfSet({c \in db.activity_completions : c.student_id = student.id /\ c.is_completed})

\* allCompletions.filter(c => c.student_id === student.id && c.is_completed)
studentCompletions(allCompletions, student) ==
  SelectSeq(allCompletions, LAMBDA c : c.student_id = student.id /\ c.is_completed)

\* parseFloat(((completedCount / totalCount) * 100).toFixed(2)), in hundredths
\* of a percent
completionPercentage(completedCount, totalCount) ==
  IF totalCount > 0 THEN (2 * 10000 * completedCount + totalCount) \div (2 * totalCount)
  ELSE 0

SummaryRow(student, allCompletions, allActivities, courseId, t) ==
  LET sc             == studentCompletions(allCompletions, student)
      completedCount == Len(sc)
      totalCount     == Len(trackableActivities(allActivities))
      \* completionPercentage >= 100 on the unrounded quotient
      isCourseCompleted == totalCount > 0 /\ completedCount >= totalCount
  IN
  [course_id             |-> courseId,
   student_id            |-> student.id,
   total_activities      |-> totalCount,
   completed_activities  |-> completedCount,
   completion_percentage |-> completionPercentage(completedCount, totalCount),
   is_course_completed   |-> isCourseCompleted,
   completion_date       |-> IF isCourseCompleted /\ Len(sc) > 0
                             THEN sc[Len(sc)].time_completed ELSE Null,
   updated_at            |-> NewDate(t)]

courseCompletionsData(students, allCompletions, allActivities, courseId, t) ==
  [n \in 1..Len(students) |->
     SummaryRow(students[n], allCompletions, allActivities, courseId, t)]

\* ----------------------------------------------------- groups (r2 only)
groupsData(courseGroups, courseId, t) ==
  [n \in 1..Len(courseGroups) |->
     [group_id   |-> courseGroups[n].id,
      course_id  |-> courseId,
      group_name |-> courseGroups[n].name,
      updated_at |-> NewDate(t)]]

\* ------------------------------------------------------------ the store
\* the values of the onConflict columns of a row
ConflictKey(row, onConflict) == [column \in onConflict |-> row[column]]

\* an insert that leaves the stored row with the same key in place
Upsert_insert(table, rows, onConflict) == table \cup Range(rows)

\* an upsert with ignoreDuplicates: the stored row with the same key wins
Upsert_ignoreDuplicates(table, rows, onConflict) ==
  table \cup {rows[n] : n \in {m \in DOMAIN rows :
                 \A old \in table :
                    ConflictKey(old, onConflict) # ConflictKey(rows[m], onConflict)}}

\* supabase.from(table).upsert(rows, { onConflict: columns }): a row of the
\* batch replaces the stored row with the same key, or is inserted
Upsert(table, rows, onConflict) ==
  {old \in table : \A n \in DOMAIN rows :
      ConflictKey(rows[n], onConflict) # ConflictKey(old, onConflict)}
    \cup Range(rows)

CourseKey     == {"course_id"}
EnrollmentKey == {"course_id", "student_id"}
ActivityKey   == {"course_id", "activity_id"}
CompletionKey == {"course_id", "student_id", "activity_id"}
SummaryKey    == {"course_id", "student_id"}
GroupKey      == {"course_id", "group_id"}

\* ------------------------------------------------------- the sync result
\* const syncResults = { course: {success: 0, failed: 0}, ..., errors: [] }
InitialSyncResults ==
  [course            |-> [success |-> 0, failed |-> 0],
   enrollments       |-> [success |-> 0, failed |-> 0],
   activities        |-> [success |-> 0, failed |-> 0],
   completions       |-> [success |-> 0, failed |-> 0],
   courseCompletions |-> [success |-> 0, failed |-> 0],
   groups            |-> [success |-> 0, failed |-> 0],
   errors            |-> <<>>]

ErrorString(kind, student, message) ==
  [kind |-> kind, student |-> student, message |-> message]

\* syncResults.<kind>.success = n
SetSuccess(results, kind, n) == [results EXCEPT ![kind].success = n]

\* syncResults.<kind>.failed = n; syncResults.errors.push(`<Kind>: ${message}`)
SetFailed(results, kind, n, message) ==
  [results EXCEPT ![kind].failed = n,
                  !.errors = Append(@, ErrorString(kind, 0, message))]

\* a tally that keeps the length of the last batch only
AddSuccess_overwrite(results, kind, n) == [results EXCEPT ![kind].success = n]

\* syncResults.completions.success += batch.length
AddSuccess(results, kind, n) == [results EXCEPT ![kind].success = @ + n]

\* syncResults.completions.failed += batch.length; syncResults.errors.push(...)
AddFailed(results, kind, n, message) ==
  [results EXCEPT ![kind].failed = @ + n,
                  !.errors = Append(@, ErrorString(kind, 0, message))]

\* the catch of the student loop: r1 only logs to the console, r2 also pushes
\* `Student ${student.id} completions: ${error.message}`
CatchStudentError(results, revision, student, message) ==
  IF ~IncludesNoCompletionCriteria(message) /\ revision = "r2"
  THEN [results EXCEPT !.errors = Append(@, ErrorString("student", student.id, message))]
  ELSE results

\* --------------------------------------------------------------- state
EmptyDb ==
  [courses |-> {}, enrollments |-> {}, activities |-> {},
   activity_completions |-> {}, course_completions |-> {}, groups |-> {},
   students |-> {}, course_content |-> {}, completions |-> {},
   student_statistics |-> {}, activity_statistics |-> {}]

Event(op, name, student, ok) ==
  [op |-> op, name |-> name, student |-> student, ok |-> ok]

IdleRun ==
  [pc             |-> "idle",
   courseId       |-> 0,
   course         |-> Null,
   students       |-> <<>>,
   allActivities  |-> <<>>,
   courseGroups   |-> <<>>,
   allCompletions |-> <<>>,
   k              |-> 1,
   i              |-> 0,
   syncResults    |-> InitialSyncResults,
   response       |-> Null,
   log            |-> <<>>,
   written        |-> {},
   failures       |-> {},
   summaries      |-> <<>>,
   dbAtStart      |-> EmptyDb,
   dbAtEnd        |-> EmptyDb]

\* a statistics job: the pipeline that runs it, the server's time zone, the
\* local arrays of the handler and its answer
IdleJob ==
  [pc              |-> "idle",
   pipeline        |-> "upload",
   tz              |-> 0,
   courseId        |-> 0,
   students        |-> <<>>,
   contents        |-> <<>>,
   flatContent     |-> <<>>,
   completionsData |-> <<>>,
   k               |-> 1,
   i               |-> 0,
   studentStats    |-> <<>>,
   activityStats   |-> <<>>,
   fetched         |-> {},
   dbAtStart       |-> EmptyDb,
   saved           |-> {},
   dbAtEnd         |-> EmptyDb,
   response        |-> Null]

\* the all-courses driver: the filtered list, the loop index, the tallies and
\* results of the handler, and the requests it sent (posted)
IdleFleet ==
  [pc             |-> "idle",
   courses        |-> <<>>,
   visibleCourses |-> <<>>,
   i              |-> 0,
   results        |-> <<>>,
   successCount   |-> 0,
   failCount      |-> 0,
   posted         |-> <<>>,
   response       |-> Null]

\* the answers of the LMS: a course without students, or a course with the
\* students 10 and 20 (and with groups, which only revision r2 fetches)
RemoteConfigs ==
  { [courses  |-> RemoteCourses,
     users    |-> u,
     contents |-> c,
     statuses |-> (10 :> s @@ 20 :> Statuses20),
     groups   |-> g] :
    u \in UserLists, c \in ContentLists, s \in StatusLists, g \in GroupLists }

HasStudents(config) == \E n \in DOMAIN config.users : IsStudent(config.users[n])

Init ==
  /\ rev \in Revisions
  /\ remote \in RemoteConfigs
  /\ HasStudents(remote) => remote.groups # <<>>
  /\ ~HasStudents(remote) => remote.statuses[10] = <<>>
  /\ rev = "r1" => remote.groups = <<>> \/ HasStudents(remote)
  /\ now = 0
  /\ faults = 0
  /\ db = EmptyDb
  /\ run = [r \in Runs |-> IdleRun]
  /\ fleet = IdleFleet
  /\ job = IdleJob

\* an awaited call either succeeds or fails; failures are bounded
Outcome(ok) == ok \/ faults < MaxFaults
CountFault(ok) == faults' = IF ok THEN faults ELSE faults + 1

Logged(rn, op, name, student, ok) ==
  [rn EXCEPT !.log = Append(@, Event(op, name, student, ok))]

\* what a run wrote: the table and the student the row is about
WrittenRows(table, rows) ==
  {[table |-> table, student_id |-> rows[n].student_id] : n \in DOMAIN rows}

\* return res.status(404).json({ success: false, error: `Course ... not found` })
NotFound(rn, database) ==
  [rn EXCEPT !.pc = "done",
             !.response = <<[status |-> 404, success |-> FALSE]>>,
             !.dbAtEnd = database]

\* a loop that starts saving as soon as one student's records are there
AfterStudent_eager(rn) ==
  IF Len(rn.allCompletions) > 0 THEN "upsertCompletions"
  ELSE IF rn.k <= Len(rn.students) THEN "getActivitiesCompletionStatus"
  ELSE IF Len(trackableActivities(rn.allActivities)) > 0 THEN "upsertCourseCompletions"
  ELSE "respond"

\* where the handler goes when the student loop is at index k
AfterStudent(rn) ==
  IF rn.k <= Len(rn.students) THEN "getActivitiesCompletionStatus"
  ELSE IF Len(rn.allCompletions) > 0 THEN "upsertCompletions"
  ELSE IF Len(trackableActivities(rn.allActivities)) > 0 THEN "upsertCourseCompletions"
  ELSE "respond"

\* a handler that swallows the error and carries on with the student loop
Catch_swallow(rn, database) == [rn EXCEPT !.pc = AfterStudent(rn)]

\* catch (error) { res.status(500).json({ success: false, error: error.message }) }
Catch(rn, database) ==
  [rn EXCEPT !.pc = "done",
             !.response = <<[status |-> 500, success |-> FALSE]>>,
             !.dbAtEnd = database]

\* where the handler goes after the activities step
AfterActivities(rn, revision) ==
  IF revision = "r2" THEN "getCourseGroups" ELSE AfterStudent(rn)

\* a batch loop that stops at the first failed batch
AfterBatch_break(rn) ==
  IF rn.i < Len(rn.allCompletions) /\ rn.log[Len(rn.log)].ok THEN "upsertCompletions"
  ELSE IF Len(trackableActivities(rn.allActivities)) > 0 THEN "upsertCourseCompletions"
  ELSE "respond"

\* where the handler goes after a completions batch that started at offset i
AfterBatch(rn) ==
  IF rn.i < Len(rn.allCompletions) THEN "upsertCompletions"
  ELSE IF Len(trackableActivities(rn.allActivities)) > 0 THEN "upsertCourseCompletions"
  ELSE "respond"

\* ------------------------------------------------------------- actions
\* the handler is entered: const { courseId } = req.params; startTime = Date.now()
Arrive(r, courseId) ==
  /\ run[r].pc = "idle"
  /\ now' = now + 1
  /\ run' = [run EXCEPT ![r] = [IdleRun EXCEPT !.pc = "getCourses",
                                              !.courseId = courseId,
                                              !.dbAtStart = db]]

\* a request arrives; syncs run one after the other
StartSync(r, courseId) ==
  /\ \A q \in Runs : q < r => run[q].pc = "done"
  /\ Arrive(r, courseId)
  /\ UNCHANGED <<job, fleet, rev, remote, faults, db>>

\* const courses = await moodle.getCourses(); const course = courses.find(...)
GetCourses(r, ok) ==
  /\ run[r].pc = "getCourses"
  /\ Outcome(ok)
  /\ CountFault(ok)
  /\ LET rn     == Logged(run[r], "fetch", "getCourses", 0, ok)
         course == FindCourse(remote.courses, rn.courseId)
     IN run' = [run EXCEPT ![r] =
                  IF ~ok THEN Catch(rn, db)
                  ELSE IF course = Null THEN NotFound(rn, db)
                  ELSE [rn EXCEPT !.pc = "upsertCourse", !.course = course]]
  /\ UNCHANGED <<job, fleet, rev, remote, now, db>>

\* a handler that holds the course row back until the run has gone through
UpsertCourse_deferred(r, ok) ==
  /\ run[r].pc = "upsertCourse"
  /\ Outcome(ok)
  /\ CountFault(ok)
  /\ run' = [run EXCEPT ![r] =
               [Logged(run[r], "upsert", "courses", 0, ok)
                  EXCEPT !.pc = "getEnrolledUsers",
                         !.syncResults = IF ok THEN SetSuccess(@, "course", 1)
                                         ELSE SetFailed(@, "course", 1, StoreMessage)]]
  /\ UNCHANGED <<job, fleet, rev, remote, now, db>>

\* await supabase.from('courses').upsert([courseData], {onConflict: 'course_id'})
UpsertCourse(r, ok) ==
  /\ run[r].pc = "upsertCourse"
  /\ Outcome(ok)
  /\ CountFault(ok)
  /\ LET rn   == Logged(run[r], "upsert", "courses", 0, ok)
         rows == <<courseData(rn.course[1], now)>>
     IN /\ db' = IF ok THEN [db EXCEPT !.courses = Upsert(@, rows, CourseKey)] ELSE db
        /\ run' = [run EXCEPT ![r] =
                     [rn EXCEPT !.pc = "getEnrolledUsers",
                                !.syncResults =
                                   IF ok THEN SetSuccess(@, "course", 1)
                                   ELSE SetFailed(@, "course", 1, StoreMessage)]]
  /\ UNCHANGED <<job, fleet, rev, remote, now>>

\* const enrolledUsers = await moodle.getEnrolledUsers(courseId); filter
GetEnrolledUsers(r, ok) ==
  /\ run[r].pc = "getEnrolledUsers"
  /\ Outcome(ok)
  /\ CountFault(ok)
  /\ LET rn       == Logged(run[r], "fetch", "getEnrolledUsers", 0, ok)
         students == FilterStudents(remote.users)
     IN run' = [run EXCEPT ![r] =
                  IF ~ok THEN Catch(rn, db)
                  ELSE [rn EXCEPT !.students = students,
                                  !.pc = IF Len(students) > 0
                                         THEN "upsertEnrollments"
                                         ELSE "getCourseContents"]]
  /\ UNCHANGED <<job, fleet, rev, remote, now, db>>

\* await supabase.from('enrollments').upsert(enrollmentsData, ...)
UpsertEnrollments(r, ok) ==
  /\ run[r].pc = "upsertEnrollments"
  /\ Outcome(ok)
  /\ CountFault(ok)
  /\ LET rn   == Logged(run[r], "upsert", "enrollments", 0, ok)
         rows == enrollmentsData(rn.students, rn.courseId, now)
         n    == Len(rn.students)
     IN /\ db' = IF ok THEN [db EXCEPT !.enrollments = Upsert(@, rows, EnrollmentKey)]
                 ELSE db
        /\ run' = [run EXCEPT ![r] =
                     [rn EXCEPT !.pc = "getCourseContents",
                                !.written = IF ok THEN @ \cup WrittenRows("enrollments", rows)
                                            ELSE @,
                                !.syncResults =
                                   IF ok THEN SetSuccess(@, "enrollments", n)
                                   ELSE SetFailed(@, "enrollments", n, StoreMessage)]]
  /\ UNCHANGED <<job, fleet, rev, remote, now>>

\* const courseContents = await moodle.getCourseContents(courseId); flatten
GetCourseContents(r, ok) ==
  /\ run[r].pc = "getCourseContents"
  /\ Outcome(ok)
  /\ CountFault(ok)
  /\ LET rn            == Logged(run[r], "fetch", "getCourseContents", 0, ok)
         allActivities == FlattenContents(remote.contents, rn.courseId, now)
         rn2           == [rn EXCEPT !.allActivities = allActivities]
     IN run' = [run EXCEPT ![r] =
                  IF ~ok THEN Catch(rn, db)
                  ELSE [rn2 EXCEPT !.pc = IF Len(allActivities) > 0
                                          THEN "upsertActivities"
                                          ELSE AfterActivities(rn2, rev)]]
  /\ UNCHANGED <<job, fleet, rev, remote, now, db>>

\* await supabase.from('activities').upsert(allActivities, ...)
UpsertActivities(r, ok) ==
  /\ run[r].pc = "upsertActivities"
  /\ Outcome(ok)
  /\ CountFault(ok)
  /\ LET rn == Logged(run[r], "upsert", "activities", 0, ok)
         n  == Len(rn.allActivities)
     IN /\ db' = IF ok THEN [db EXCEPT !.activities =
                                         Upsert(@, rn.allActivities, ActivityKey)]
                 ELSE db
        /\ run' = [run EXCEPT ![r] =
                     [rn EXCEPT !.pc = AfterActivities(rn, rev),
                                !.syncResults =
                                   IF ok THEN SetSuccess(@, "activities", n)
                                   ELSE SetFailed(@, "activities", n, StoreMessage)]]
  /\ UNCHANGED <<job, fleet, rev, remote, now>>

\* r2, step 4: try { const courseGroups = await moodle.getCourseGroups(courseId) }
\* catch (error) { syncResults.errors.push(`Groups warning: ...`) }
GetCourseGroups(r, ok) ==
  /\ run[r].pc = "getCourseGroups"
  /\ Outcome(ok)
  /\ CountFault(ok)
  /\ LET rn == Logged(run[r], "fetch", "getCourseGroups", 0, ok)
     IN run' = [run EXCEPT ![r] =
                  IF ~ok
                  THEN [rn EXCEPT !.pc = AfterStudent(rn),
                                  !.syncResults.errors =
                                     Append(@, ErrorString("groups warning", 0, OtherMessage))]
                  ELSE [rn EXCEPT !.courseGroups = remote.groups,
                                  !.pc = IF Len(remote.groups) > 0 THEN "upsertGroups"
                                         ELSE AfterStudent(rn)]]
  /\ UNCHANGED <<job, fleet, rev, remote, now, db>>

\* r2: await supabase.from('groups').upsert(groupsData, ...)
UpsertGroups(r, ok) ==
  /\ run[r].pc = "upsertGroups"
  /\ Outcome(ok)
  /\ CountFault(ok)
  /\ LET rn   == Logged(run[r], "upsert", "groups", 0, ok)
         rows == groupsData(rn.courseGroups, rn.courseId, now)
         n    == Len(rn.courseGroups)
     IN /\ db' = IF ok THEN [db EXCEPT !.groups = Upsert(@, rows, GroupKey)] ELSE db
        /\ run' = [run EXCEPT ![r] =
                     [rn EXCEPT !.pc = AfterStudent(rn),
                                !.syncResults =
                                   IF ok THEN SetSuccess(@, "groups", n)
                                   ELSE SetFailed(@, "groups", n, StoreMessage)]]
  /\ UNCHANGED <<job, fleet, rev, remote, now>>

\* the body of `for (const student of students)`: the awaited fetch, then
\* either the forEach over the statuses or the catch
GetActivitiesCompletionStatus(r, ok, message) ==
  /\ run[r].pc = "getActivitiesCompletionStatus"
  /\ Outcome(ok)
  /\ CountFault(ok)
  /\ LET student  == run[r].students[run[r].k]
         rn       == Logged(run[r], "fetch", "getActivitiesCompletionStatus",
                            student.id, ok)
         statuses == remote.statuses[student.id]
         rows     == StudentCompletions(statuses, student, rn.allActivities,
                                        rn.courseId, now)
         failed   == [rn EXCEPT !.k = @ + 1,
                                !.failures = @ \cup {[student |-> student.id,
                                                      message |-> message]},
                                !.syncResults =
                                   CatchStudentError(@, rev, student, message)]
     IN run' = [run EXCEPT ![r] =
                  IF ok
                  THEN [rn EXCEPT !.pc = "delay",
                                  !.allCompletions = @ \o rows]
                  ELSE [failed EXCEPT !.pc = AfterStudent(failed)]]
  /\ UNCHANGED <<job, fleet, rev, remote, now, db>>

\* await new Promise(resolve => setTimeout(resolve, 100)), the last statement
\* of the try block; then the next iteration
Delay(r) ==
  /\ run[r].pc = "delay"
  /\ LET rn == [Logged(run[r], "delay", "setTimeout", run[r].students[run[r].k].id, TRUE)
                  EXCEPT !.k = @ + 1]
     IN run' = [run EXCEPT ![r] = [rn EXCEPT !.pc = AfterStudent(rn)]]
  /\ UNCHANGED <<job, fleet, rev, remote, now, faults, db>>

\* one iteration of `for (let i = 0; i < allCompletions.length; i += batchSize)`
UpsertCompletions(r, ok) ==
  /\ run[r].pc = "upsertCompletions"
  /\ Outcome(ok)
  /\ CountFault(ok)
  /\ LET rn    == Logged(run[r], "upsert", "activity_completions", 0, ok)
         batch == Slice(rn.allCompletions, rn.i, rn.i + batchSize)
         rn2   == [rn EXCEPT !.i = @ + batchSize,
                             !.written = IF ok
                                         THEN @ \cup WrittenRows("activity_completions", batch)
                                         ELSE @,
                             !.syncResults =
                                IF ok THEN AddSuccess(@, "completions", Len(batch))
                                ELSE AddFailed(@, "completions", Len(batch), StoreMessage)]
     IN /\ db' = IF ok THEN [db EXCEPT !.activity_completions =
                                         Upsert(@, batch, CompletionKey)]
                 ELSE db
        /\ run' = [run EXCEPT ![r] = [rn2 EXCEPT !.pc = AfterBatch(rn2)]]
  /\ UNCHANGED <<job, fleet, rev, remote, now>>

\* if (trackableActivities.length > 0) { ...; await supabase
\*   .from('course_completions').upsert(courseCompletionsData, ...) }
UpsertCourseCompletions(r, ok) ==
  /\ run[r].pc = "upsertCourseCompletions"
  /\ Outcome(ok)
  /\ CountFault(ok)
  /\ LET rn   == Logged(run[r], "upsert", "course_completions", 0, ok)
         rows == courseCompletionsData(rn.students, rn.allCompletions,
                                       rn.allActivities, rn.courseId, now)
         n    == Len(rn.students)
     IN /\ db' = IF ok THEN [db EXCEPT !.course_completions =
                                         Upsert(@, rows, SummaryKey)]
                 ELSE db
        /\ run' = [run EXCEPT ![r] =
                     [rn EXCEPT !.pc = "respond",
                                !.summaries = rows,
                                !.written = IF ok
                                            THEN @ \cup WrittenRows("course_completions", rows)
                                            ELSE @,
                                !.syncResults =
                                   IF ok THEN SetSuccess(@, "courseCompletions", n)
                                   ELSE SetFailed(@, "courseCompletions", n, StoreMessage)]]
  /\ UNCHANGED <<job, fleet, rev, remote, now>>

\* res.json({ success: true, ..., results: syncResults })
SendResponse(r) ==
  /\ run[r].pc = "respond"
  /\ run' = [run EXCEPT ![r] =
               [@ EXCEPT !.pc = "done",
                         !.response = <<[status |-> 200, success |-> TRUE]>>,
                         !.dbAtEnd = db]]
  /\ UNCHANGED <<job, fleet, rev, remote, now, faults, db>>

Next ==
  \/ \E r \in Runs, courseId \in CourseIdParams : StartSync(r, courseId)
  \/ \E r \in Runs, ok \in BOOLEAN : GetCourses(r, ok)
  \/ \E r \in Runs, ok \in BOOLEAN : UpsertCourse(r, ok)
  \/ \E r \in Runs, ok \in BOOLEAN : GetEnrolledUsers(r, ok)
  \/ \E r \in Runs, ok \in BOOLEAN : UpsertEnrollments(r, ok)
  \/ \E r \in Runs, ok \in BOOLEAN : GetCourseContents(r, ok)
  \/ \E r \in Runs, ok \in BOOLEAN : UpsertActivities(r, ok)
  \/ \E r \in Runs, ok \in BOOLEAN : GetCourseGroups(r, ok)
  \/ \E r \in Runs, ok \in BOOLEAN : UpsertGroups(r, ok)
  \/ \E r \in Runs : GetActivitiesCompletionStatus(r, TRUE, "")
  \/ \E r \in Runs, message \in {NoCriteriaMessage, OtherMessage} :
        GetActivitiesCompletionStatus(r, FALSE, message)
  \/ \E r \in Runs : Delay(r)
  \/ \E r \in Runs, ok \in BOOLEAN : UpsertCompletions(r, ok)
  \/ \E r \in Runs, ok \in BOOLEAN : UpsertCourseCompletions(r, ok)
  \/ \E r \in Runs : SendResponse(r)

Spec == Init /\ [][Next]_vars

\* ==================================================================
\* The all-courses driver (POST /api/moodle/sync/all-courses)
\* ==================================================================
\* the course list of an LMS with a second visible course
FleetCourses ==
  RemoteCourses \o << [id |-> 4, shortname |-> "c4", startdate |-> 8, visible |-> 1] >>

\* a filter that keeps the site course
visibleCourses_withSite(courses) == SelectSeq(courses, LAMBDA c : c.visible = 1)

\* courses.filter(c => c.visible === 1 && c.id > 1)
visibleCourses(courses) == SelectSeq(courses, LAMBDA c : c.visible = 1 /\ c.id > 1)

\* results.push({ courseId, courseName, success, ... }); successCount++ / failCount++
Recorded(fl, course, ok) ==
  [fl EXCEPT !.results = Append(@, [courseId |-> course.id, success |-> ok]),
             !.successCount = IF ok THEN @ + 1 ELSE @,
             !.failCount = IF ok THEN @ ELSE @ + 1]

\* res.json({ success: true, summary: { total, success, failed }, results })
FleetRespond(fl) ==
  [fl EXCEPT !.pc = "done",
             !.response = <<[status  |-> 200,
                             success |-> TRUE,
                             summary |-> [total   |-> Len(fl.visibleCourses),
                                          success |-> fl.successCount,
                                          failed  |-> fl.failCount],
                             results |-> fl.results]>>]

\* a loop that ends at the first course that failed
AfterPost_break(fl) ==
  LET nx == [fl EXCEPT !.i = @ + 1] IN
  IF nx.i <= Len(nx.visibleCourses) /\ nx.results[Len(nx.results)].success
  THEN [nx EXCEPT !.pc = "post"]
  ELSE FleetRespond(nx)

\* i++ of `for (let i = 0; i < visibleCourses.length; i++)`, then the next
\* iteration or the code after the loop
AfterPost(fl) ==
  LET nx == [fl EXCEPT !.i = @ + 1] IN
  IF nx.i <= Len(nx.visibleCourses)
  THEN [nx EXCEPT !.pc = "post"]
  ELSE FleetRespond(nx)

FleetInit ==
  /\ rev \in Revisions
  /\ remote = [courses  |-> FleetCourses,
               users    |-> <<User10, User30, User20>>,
               contents |-> << [id |-> 51, section |-> 1, name |-> "Topic 1",
                                modules |-> <<Module101, Module102>>] >>,
               statuses |-> (10 :> <<>> @@ 20 :> Statuses20),
               groups   |-> << [id |-> 7, name |-> "Group A"] >>]
  /\ now = 0
  /\ faults = 0
  /\ db = EmptyDb
  /\ run = [r \in Runs |-> IdleRun]
  /\ fleet = IdleFleet
  /\ job = IdleJob

\* const courses = await moodle.getCourses(); const visibleCourses = ...
FleetGetCourses(ok) ==
  /\ fleet.pc = "idle"
  /\ Outcome(ok)
  /\ CountFault(ok)
  /\ fleet' =
       IF ~ok
       THEN [fleet EXCEPT !.pc = "done",
                          !.response = <<[status |-> 500, success |-> FALSE]>>]
       ELSE LET fl == [fleet EXCEPT !.courses = remote.courses,
                                     !.visibleCourses = visibleCourses(remote.courses),
                                     !.i = 1]
            IN IF Len(fl.visibleCourses) >= 1 THEN [fl EXCEPT !.pc = "post"]
               ELSE FleetRespond(fl)
  /\ UNCHANGED <<job, rev, remote, now, db, run>>

\* axios.post(`.../api/moodle/sync/course/${course.id}`): the request reaches
\* the per-course handler
FleetPost ==
  /\ fleet.pc = "post"
  /\ fleet.i \in Runs
  /\ Arrive(fleet.i, fleet.visibleCourses[fleet.i].id)
  /\ fleet' = [fleet EXCEPT !.pc = "await",
                            !.posted = Append(@, fleet.visibleCourses[fleet.i].id)]
  /\ UNCHANGED <<job, rev, remote, faults, db>>

\* axios.post rejects without the handler having run (connection refused)
FleetPostRefused ==
  /\ fleet.pc = "post"
  /\ faults < MaxFaults
  /\ faults' = faults + 1
  /\ LET course == fleet.visibleCourses[fleet.i]
         fl     == [fleet EXCEPT !.posted = Append(@, course.id)]
     IN fleet' = AfterPost(Recorded(fl, course, FALSE))
  /\ UNCHANGED <<job, rev, remote, now, db, run>>

\* the awaited axios.post settles: it resolves on a 200 answer and rejects
\* on a 404 or 500 answer, which the catch of the loop body records
FleetAwait ==
  /\ fleet.pc = "await"
  /\ run[fleet.i].pc = "done"
  /\ LET course == fleet.visibleCourses[fleet.i]
         ok     == run[fleet.i].response[1].status = 200
     IN fleet' = AfterPost(Recorded(fleet, course, ok))
  /\ UNCHANGED <<job, rev, remote, now, faults, db, run>>

\* a course is deleted in the LMS while the driver is at work
CourseDeleted ==
  /\ fleet.pc \in {"post", "await"}
  /\ \E n \in DOMAIN remote.courses : remote.courses[n].id = 4
  /\ remote' = [remote EXCEPT !.courses = SelectSeq(@, LAMBDA c : c.id # 4)]
  /\ UNCHANGED <<job, rev, now, faults, db, run, fleet>>

FleetNext ==
  \/ \E ok \in BOOLEAN : FleetGetCourses(ok)
  \/ FleetPost
  \/ FleetPostRefused
  \/ FleetAwait
  \/ CourseDeleted
  \/ \E r \in Runs, ok \in BOOLEAN : GetCourses(r, ok)
  \/ \E r \in Runs, ok \in BOOLEAN : UpsertCourse(r, ok)
  \/ \E r \in Runs, ok \in BOOLEAN : GetEnrolledUsers(r, ok)
  \/ \E r \in Runs, ok \in BOOLEAN : UpsertEnrollments(r, ok)
  \/ \E r \in Runs, ok \in BOOLEAN : GetCourseContents(r, ok)
  \/ \E r \in Runs, ok \in BOOLEAN : UpsertActivities(r, ok)
  \/ \E r \in Runs, ok \in BOOLEAN : GetCourseGroups(r, ok)
  \/ \E r \in Runs, ok \in BOOLEAN : UpsertGroups(r, ok)
  \/ \E r \in Runs : GetActivitiesCompletionStatus(r, TRUE, "")
  \/ \E r \in Runs, message \in {NoCriteriaMessage, OtherMessage} :
        GetActivitiesCompletionStatus(r, FALSE, message)
  \/ \E r \in Runs : Delay(r)
  \/ \E r \in Runs, ok \in BOOLEAN : UpsertCompletions(r, ok)
  \/ \E r \in Runs, ok \in BOOLEAN : UpsertCourseCompletions(r, ok)
  \/ \E r \in Runs : SendResponse(r)

FleetSpec == FleetInit /\ [][FleetNext]_vars

\* ==================================================================
\* The statistics pipelines: POST /api/courses/:courseId/upload
\* (src/api-server.js:1392) and CompleteCourseData.getCompleteCourseData
\* (src/complete-course-dashboard.js:242).  Both build one completion record
\* for every student and activity and derive the same statistics; they
\* differ in what they store and in what they hand to isStudentActive.
\* ==================================================================
Pipelines == {"upload", "dashboard"}

\* formatTimestamp: null for a missing or zero timestamp, otherwise the UTC
\* wall-clock text "YYYY-MM-DD HH:MM:SS" of that second
formatTimestamp(user, field) ==
  IF field \in DOMAIN user /\ user[field] # 0 THEN <<[utc |-> user[field]]>> ELSE Null

\* student.lastcourseaccess of the raw LMS user: a number of seconds
RawTimestamp(user, field) ==
  IF field \in DOMAIN user /\ user[field] # 0 THEN <<[number |-> user[field]]>> ELSE Null

\* new Date(value).getTime(): a number is taken as milliseconds, a text
\* without a zone is read in the server's time zone
GetTime(value, tz) ==
  IF "number" \in DOMAIN value THEN value.number ELSE (value.utc - tz) * 1000

\* isStudentActive: (Date.now() - lastAccess.getTime()) / DayMs <= 7
isStudentActive(lastcourseaccess, tz, t) ==
  IF lastcourseaccess = Null THEN FALSE
  ELSE t * 1000 - GetTime(lastcourseaccess[1], tz) <= 7 * DayMs

\* what each pipeline hands to isStudentActive
LastCourseAccessArgument(student, pipeline) ==
  IF pipeline = "upload" THEN RawTimestamp(student, "lastcourseaccess")
  ELSE formatTimestamp(student, "lastcourseaccess")

\* thresholds one class lower
getPerformanceLevel_shifted(completed, trackedActivities) ==
  IF trackedActivities = 0 THEN "Poor"
  ELSE IF 10 * completed > 9 * trackedActivities THEN "Excellent"
  ELSE IF 10 * completed > 7 * trackedActivities THEN "Good"
  ELSE IF 10 * completed > 5 * trackedActivities THEN "Average"
  ELSE IF 10 * completed > 3 * trackedActivities THEN "Below Average"
  ELSE "Poor"

\* getPerformanceLevel(completed / trackedActivities); 0 / 0 is NaN, for which
\* every comparison is false
getPerformanceLevel(completed, trackedActivities) ==
  IF trackedActivities = 0 THEN "Poor"
  ELSE IF 10 * completed >= 9 * trackedActivities THEN "Excellent"
  ELSE IF 10 * completed >= 7 * trackedActivities THEN "Good"
  ELSE IF 10 * completed >= 5 * trackedActivities THEN "Average"
  ELSE IF 10 * completed >= 3 * trackedActivities THEN "Below Average"
  ELSE "Poor"

\* a percentage without the factor 100
Percentage_fraction(part, whole) ==
  IF whole > 0 THEN (2 * 100 * part + whole) \div (2 * whole) ELSE 0

\* whole > 0 ? ((part / whole) * 100).toFixed(2) : 0, in hundredths
Percentage(part, whole) ==
  IF whole > 0 THEN (2 * 10000 * part + whole) \div (2 * whole) ELSE 0

\* ------------------------------------------------- students and content
studentsData(students) ==
  [n \in 1..Len(students) |->
     [id               |-> students[n].id,
      firstname        |-> students[n].firstname,
      lastname         |-> students[n].lastname,
      firstaccess      |-> formatTimestamp(students[n], "firstaccess"),
      lastcourseaccess |-> formatTimestamp(students[n], "lastcourseaccess")]]

\* the item of one module of one section
FlatItem(section, module) ==
  [sectionnumber |-> section.section,
   sectionname   |-> section.name,
   activityid    |-> module.id,
   activityname  |-> module.name,
   activitytype  |-> module.modname,
   visible       |-> (module.visible = 1),
   hascompletion |-> HasCompletion(module)]

\* items that take the section number from the position of the module
SectionItems_positional(section) ==
  IF "modules" \in DOMAIN section
  THEN [n \in 1..Len(section.modules) |->
          [FlatItem(section, section.modules[n]) EXCEPT !.sectionnumber = n]]
  ELSE <<>>

\* section.modules.forEach(...) of the upload, (section.modules || []).map(...)
\* of the dashboard
SectionItems(section) ==
  IF "modules" \in DOMAIN section
  THEN [n \in 1..Len(section.modules) |-> FlatItem(section, section.modules[n])]
  ELSE <<>>

RECURSIVE flatContent(_)
flatContent(contents) ==
  IF Len(contents) = 0 THEN <<>>
  ELSE SectionItems(Head(contents)) \o flatContent(Tail(contents))

\* the upload calls section.modules.forEach without a guard
ModulesMissing(contents) ==
  \E n \in DOMAIN contents : "modules" \notin DOMAIN contents[n]

\* ------------------------------------------------------ the completions
\* completionMap[cmid] || {}: the last status of that cmid, <<>> for none
completionMap(statuses, cmid) ==
  IF \E n \in DOMAIN statuses : statuses[n].cmid = cmid
  THEN LET last == CHOOSE n \in DOMAIN statuses :
                     /\ statuses[n].cmid = cmid
                     /\ \A m \in DOMAIN statuses : statuses[m].cmid = cmid => m <= n
       IN <<statuses[last]>>
  ELSE Null

\* completion.state || 0
StateOf(completion) ==
  IF completion # Null /\ "state" \in DOMAIN completion[1] THEN completion[1].state ELSE 0

MatchedCompletion(student, item, statuses) ==
  LET completion == completionMap(statuses, item.activityid) IN
  [studentid             |-> student.id,
   sectionnumber         |-> item.sectionnumber,
   activityid            |-> item.activityid,
   hascompletiontracking |-> item.hascompletion,
   completionstate       |-> StateOf(completion),
   iscompleted           |-> StateOf(completion) >= 1,
   ispassed              |-> StateOf(completion) = 2,
   isfailed              |-> StateOf(completion) = 3,
   completiondate        |-> IF completion = Null THEN Null
                             ELSE formatTimestamp(completion[1], "timecompleted")]

\* contents.forEach(section => section.modules.forEach(module => push(...)))
MatchCompletions(student, flat, statuses) ==
  [n \in 1..Len(flat) |-> MatchedCompletion(student, flat[n], statuses)]

\* ------------------------------------------------------- the statistics
Count(rows, flag) == Len(SelectSeq(rows, LAMBDA c : c[flag]))

\* a filter that forgets the tracking flag
trackedCompletionsOfStudent_all(completionsData, student) ==
  SelectSeq(completionsData, LAMBDA c : c.studentid = student.id)

\* completionsData.filter(c => c.studentid === student.id && c.hascompletiontracking)
trackedCompletionsOfStudent(completionsData, student) ==
  SelectSeq(completionsData,
            LAMBDA c : c.studentid = student.id /\ c.hascompletiontracking)

\* completionsData.filter(c => c.activityid === activity.activityid
\*                             && c.hascompletiontracking)
activityCompletions(completionsData, activity) ==
  SelectSeq(completionsData,
            LAMBDA c : c.activityid = activity.activityid /\ c.hascompletiontracking)

\* flatContent.filter(a => a.hascompletion).length
trackedActivities(flat) == Len(SelectSeq(flat, LAMBDA a : a.hascompletion))

\* statistics whose remaining count subtracts the passed activities only
StudentStatistics_remainingOfPassed(student, completionsData, flat, pipeline, tz, t) ==
  LET sc        == trackedCompletionsOfStudent(completionsData, student)
      completed == Count(sc, "iscompleted")
      passed    == Count(sc, "ispassed")
      tracked   == trackedActivities(flat)
  IN
  [studentid            |-> student.id,
   totalactivities      |-> tracked,
   activitiescompleted  |-> completed,
   activitiespassed     |-> passed,
   activitiesfailed     |-> Count(sc, "isfailed"),
   activitiesremaining  |-> tracked - passed,
   completionpercentage |-> Percentage(completed, tracked),
   passpercentage       |-> Percentage(passed, completed),
   isactive             |-> isStudentActive(LastCourseAccessArgument(student, pipeline),
                                            tz, t),
   performancelevel     |-> getPerformanceLevel(completed, tracked)]

\* one element of studentStats (upload) / calculateStudentStatistics (dashboard)
StudentStatistics(student, completionsData, flat, pipeline, tz, t) ==
  LET sc        == trackedCompletionsOfStudent(completionsData, student)
      completed == Count(sc, "iscompleted")
      passed    == Count(sc, "ispassed")
      tracked   == trackedActivities(flat)
  IN
  [studentid            |-> student.id,
   totalactivities      |-> tracked,
   activitiescompleted  |-> completed,
   activitiespassed     |-> passed,
   activitiesfailed     |-> Count(sc, "isfailed"),
   activitiesremaining  |-> tracked - completed,
   completionpercentage |-> Percentage(completed, tracked),
   passpercentage       |-> Percentage(passed, completed),
   isactive             |-> isStudentActive(LastCourseAccessArgument(student, pipeline),
                                            tz, t),
   performancelevel     |-> getPerformanceLevel(completed, tracked)]

studentStats(students, completionsData, flat, pipeline, tz, t) ==
  [n \in 1..Len(students) |->
     StudentStatistics(students[n], completionsData, flat, pipeline, tz, t)]

\* one element of activityStats (upload) / calculateActivityStatistics (dashboard)
ActivityStatistics(activity, completionsData, totalstudents) ==
  LET ac        == activityCompletions(completionsData, activity)
      completed == Count(ac, "iscompleted")
      passed    == Count(ac, "ispassed")
  IN
  [activityid         |-> activity.activityid,
   hastracking        |-> activity.hascompletion,
   totalstudents      |-> totalstudents,
   studentscompleted  |-> completed,
   studentspassed     |-> passed,
   studentsfailed     |-> Count(ac, "isfailed"),
   studentsnotstarted |-> totalstudents - completed,
   completionrate     |-> Percentage(completed, totalstudents),
   passrate           |-> Percentage(passed, completed)]

activityStats(flat, completionsData, totalstudents) ==
  [n \in 1..Len(flat) |-> ActivityStatistics(flat[n], completionsData, totalstudents)]

\* ---------------------------------------------------- the job's actions
\* the LMS answers for every enrolled user, student or not
StatsConfigs ==
  { [courses  |-> RemoteCourses,
     users    |-> u,
     contents |-> c,
     statuses |-> (10 :> s @@ 20 :> Statuses20 @@ 30 :> <<>> @@ 40 :> <<>>),
     groups   |-> <<>>] :
    u \in UserLists, c \in ContentLists, s \in StatusLists }

StatsInit ==
  /\ rev = "r1"
  /\ remote \in StatsConfigs
  /\ ~HasStudents(remote) => remote.statuses[10] = <<>>
  /\ now = StatsNow
  /\ faults = 0
  /\ db = EmptyDb
  /\ run = [r \in Runs |-> IdleRun]
  /\ fleet = IdleFleet
  /\ job = IdleJob

\* a second course of the LMS, in which the same users are enrolled; its one
\* activity has a course-module id of its own, as every activity of the LMS
OtherCourse == 4

Module401 == [id |-> 401, name |-> "Forum 4", modname |-> "forum", visible |-> 1,
              completion |-> 1, completionexpected |-> 0]

OtherContents ==
  << [id |-> 60, section |-> 0, name |-> "General", modules |-> <<Module401>>] >>

OtherStatuses(studentId) ==
  IF studentId = 10
  THEN << [cmid |-> 401, state |-> 1, timecompleted |-> 80, tracking |-> 1] >>
  ELSE <<>>

\* what the LMS answers for the course asked for
CourseContents(rem, courseId) ==
  IF courseId = OtherCourse THEN OtherContents ELSE rem.contents

CompletionStatuses(rem, courseId, studentId) ==
  IF courseId = OtherCourse THEN OtherStatuses(studentId) ELSE rem.statuses[studentId]

\* the tables of which an upsert of the job went through
Saved(jb, table, ok) == [jb EXCEPT !.saved = IF ok THEN @ \cup {table} ELSE @]

\* catch (error) { res.status(500).json(...) } of the upload, `throw error`
\* of getCompleteCourseData and of saveToSupabase
JobCatch(jb) ==
  [jb EXCEPT !.pc = "done", !.response = <<[status |-> 500, success |-> FALSE]>>,
             !.dbAtEnd = db]

\* where the job goes when the student loop is at index k
AfterJobStudent(jb) ==
  IF jb.k <= Len(jb.students) THEN "getActivitiesCompletion"
  ELSE IF jb.pipeline = "dashboard" THEN "calculateStatistics"
  ELSE IF Len(jb.completionsData) > 0 THEN "upsertCompletions"
  ELSE "upsertStudentStatistics"

\* the request arrives (upload) or the script starts (dashboard)
JobArrive(pipeline, tz) ==
  /\ job.pc = "idle"
  /\ job' = [job EXCEPT !.pc = IF pipeline = "dashboard" THEN "getCourseInformation"
                               ELSE "getEnrolledUsers",
                        !.pipeline = pipeline,
                        !.tz = tz,
                        !.dbAtStart = db,
                        !.courseId = 2]
  /\ UNCHANGED <<rev, remote, now, faults, db, run, fleet>>

\* getCourseInformation catches its own errors and returns a fallback
JobGetCourseInformation(ok) ==
  /\ job.pc = "getCourseInformation"
  /\ Outcome(ok)
  /\ CountFault(ok)
  /\ job' = [job EXCEPT !.pc = "getEnrolledUsers"]
  /\ UNCHANGED <<rev, remote, now, db, run, fleet>>

\* const students = await moodleTracker.getEnrolledUsers(courseIdNum)
JobGetEnrolledUsers(ok) ==
  /\ job.pc = "getEnrolledUsers"
  /\ Outcome(ok)
  /\ CountFault(ok)
  /\ job' = IF ~ok THEN JobCatch(job)
            ELSE [job EXCEPT !.students = remote.users,
                             !.pc = IF job.pipeline = "upload" THEN "upsertStudents"
                                    ELSE "getCourseContents"]
  /\ UNCHANGED <<rev, remote, now, db, run, fleet>>

\* supabase.from('students').upsert(studentsData, { onConflict: 'id' })
JobUpsertStudents(ok) ==
  /\ job.pc = "upsertStudents"
  /\ Outcome(ok)
  /\ CountFault(ok)
  /\ db' = IF ok THEN [db EXCEPT !.students = Upsert(@, studentsData(job.students), {"id"})]
           ELSE db
  /\ job' = IF ok THEN [Saved(job, "students", ok) EXCEPT !.pc = "getCourseContents"]
            ELSE JobCatch(job)
  /\ UNCHANGED <<rev, remote, now, run, fleet>>

\* const contents = await moodleTracker.getCourseContents(courseIdNum), then
\* the flattening
JobGetCourseContents(ok) ==
  /\ job.pc = "getCourseContents"
  /\ Outcome(ok)
  /\ CountFault(ok)
  /\ job' = IF ~ok \/ (job.pipeline = "upload"
                         /\ ModulesMissing(CourseContents(remote, job.courseId)))
            THEN JobCatch(job)
            ELSE LET contents == CourseContents(remote, job.courseId)
                     jb == [job EXCEPT !.contents = contents,
                                       !.flatContent = flatContent(contents)]
                 IN [jb EXCEPT !.pc = IF jb.pipeline = "upload" THEN "upsertContent"
                                      ELSE AfterJobStudent(jb)]
  /\ UNCHANGED <<rev, remote, now, db, run, fleet>>

\* supabase.from('course_content').upsert(flatContent, { onConflict: 'activityid' })
JobUpsertContent(ok) ==
  /\ job.pc = "upsertContent"
  /\ Outcome(ok)
  /\ CountFault(ok)
  /\ db' = IF ok THEN [db EXCEPT !.course_content =
                                    Upsert(@, job.flatContent, {"activityid"})]
           ELSE db
  /\ job' = IF ok THEN [Saved(job, "course_content", ok) EXCEPT !.pc = AfterJobStudent(job)]
            ELSE JobCatch(job)
  /\ UNCHANGED <<rev, remote, now, run, fleet>>

\* one iteration of the student loop: the fetch and the matching of its
\* statuses with every activity, or the catch that only warns
JobGetActivitiesCompletion(ok) ==
  /\ job.pc = "getActivitiesCompletion"
  /\ Outcome(ok)
  /\ CountFault(ok)
  /\ LET student == job.students[job.k]
         rows    == MatchCompletions(student, job.flatContent,
                                     CompletionStatuses(remote, job.courseId, student.id))
         jb      == [job EXCEPT !.k = @ + 1,
                                !.fetched = IF ok THEN @ \cup {student.id} ELSE @,
                                !.completionsData = IF ok THEN @ \o rows ELSE @]
     IN job' = [jb EXCEPT !.pc = AfterJobStudent(jb)]
  /\ UNCHANGED <<rev, remote, now, db, run, fleet>>

\* one iteration of the batch loop of the upload; an error is thrown
JobUpsertCompletions(ok) ==
  /\ job.pc = "upsertCompletions"
  /\ Outcome(ok)
  /\ CountFault(ok)
  /\ LET batch == Slice(job.completionsData, job.i, job.i + batchSize)
         jb    == [Saved(job, "completions", ok) EXCEPT !.i = @ + batchSize]
     IN /\ db' = IF ok THEN [db EXCEPT !.completions =
                                         Upsert(@, batch, {"studentid", "activityid"})]
                 ELSE db
        /\ job' = IF ~ok THEN JobCatch(jb)
                  ELSE [jb EXCEPT !.pc = IF jb.i < Len(jb.completionsData)
                                         THEN "upsertCompletions"
                                         ELSE "upsertStudentStatistics"]
  /\ UNCHANGED <<rev, remote, now, run, fleet>>

\* const studentStats = students.map(...); supabase.from('student_statistics')
\*   .upsert(studentStats, { onConflict: 'studentid' })
JobUpsertStudentStatistics(ok) ==
  /\ job.pc = "upsertStudentStatistics"
  /\ Outcome(ok)
  /\ CountFault(ok)
  /\ LET rows == studentStats(job.students, job.completionsData, job.flatContent,
                              job.pipeline, job.tz, now)
         jb   == [Saved(job, "student_statistics", ok) EXCEPT !.studentStats = rows]
     IN /\ db' = IF ok THEN [db EXCEPT !.student_statistics =
                                         Upsert(@, rows, {"studentid"})]
                 ELSE db
        /\ job' = IF ok THEN [jb EXCEPT !.pc = "upsertActivityStatistics"]
                  ELSE JobCatch(jb)
  /\ UNCHANGED <<rev, remote, now, run, fleet>>

\* const activityStats = flatContent.map(...); supabase.from('activity_statistics')
\*   .upsert(activityStats, { onConflict: 'activityid' }); res.json(...)
JobUpsertActivityStatistics(ok) ==
  /\ job.pc = "upsertActivityStatistics"
  /\ Outcome(ok)
  /\ CountFault(ok)
  /\ LET rows == activityStats(job.flatContent, job.completionsData, Len(job.students))
         jb   == [Saved(job, "activity_statistics", ok) EXCEPT !.activityStats = rows]
     IN /\ db' = IF ok THEN [db EXCEPT !.activity_statistics =
                                         Upsert(@, rows, {"activityid"})]
                 ELSE db
        /\ job' = IF ok
                  THEN [jb EXCEPT !.pc = "done",
                                  !.response = <<[status |-> 200, success |-> TRUE]>>]
                  ELSE JobCatch(jb)
  /\ UNCHANGED <<rev, remote, now, run, fleet>>

\* step 5 of getCompleteCourseData: calculateActivityStatistics and
\* calculateStudentStatistics, then return courseData; the script goes on with
\* saveToSupabase(courseData)
JobCalculateStatistics ==
  /\ job.pc = "calculateStatistics"
  /\ job' = [job EXCEPT
               !.pc = "saveStudents",
               !.activityStats = activityStats(job.flatContent, job.completionsData,
                                               Len(job.students)),
               !.studentStats = studentStats(job.students, job.completionsData,
                                             job.flatContent, job.pipeline, job.tz, now)]
  /\ UNCHANGED <<rev, remote, now, faults, db, run, fleet>>

\* "All data saved to Supabase successfully!"
JobSavedAll(jb) ==
  [jb EXCEPT !.pc = "done", !.response = <<[status |-> 200, success |-> TRUE]>>]

\* one save of saveToSupabase: an upsert whose error is thrown
SaveStep(step, table, rows, onConflict, next, ok) ==
  /\ job.pc = step
  /\ Outcome(ok)
  /\ CountFault(ok)
  /\ db' = IF ok THEN [db EXCEPT ![table] = Upsert(@, rows, onConflict)] ELSE db
  /\ job' = IF ~ok THEN JobCatch(job)
            ELSE IF next = "done" THEN JobSavedAll(Saved(job, table, ok))
            ELSE [Saved(job, table, ok) EXCEPT !.pc = next]
  /\ UNCHANGED <<rev, remote, now, run, fleet>>

\* await this.saveStudentsToSupabase(courseData.enrolledStudents)
JobSaveStudents(ok) ==
  SaveStep("saveStudents", "students", studentsData(job.students), {"id"},
           "saveCourseContent", ok)

\* await this.saveCourseContentToSupabase(courseData.courseContent)
JobSaveCourseContent(ok) ==
  SaveStep("saveCourseContent", "course_content", job.flatContent, {"activityid"},
           "saveStudentStatistics", ok)

\* await this.saveStudentStatisticsToSupabase(courseData.studentStatistics)
JobSaveStudentStatistics(ok) ==
  SaveStep("saveStudentStatistics", "student_statistics", job.studentStats,
           {"studentid"}, "saveActivityStatistics", ok)

\* await this.saveActivityStatisticsToSupabase(courseData.activityStatistics)
JobSaveActivityStatistics(ok) ==
  SaveStep("saveActivityStatistics", "activity_statistics", job.activityStats,
           {"activityid"},
           IF Len(job.completionsData) > 0 THEN "saveCompletions" ELSE "done", ok)

\* one iteration of the batch loop of saveCompletionsToSupabase
JobSaveCompletions(ok) ==
  /\ job.pc = "saveCompletions"
  /\ Outcome(ok)
  /\ CountFault(ok)
  /\ LET batch == Slice(job.completionsData, job.i, job.i + batchSize)
         jb    == [Saved(job, "completions", ok) EXCEPT !.i = @ + batchSize]
     IN /\ db' = IF ok THEN [db EXCEPT !.completions =
                                         Upsert(@, batch, {"studentid", "activityid"})]
                 ELSE db
        /\ job' = IF ~ok THEN JobCatch(jb)
                  ELSE IF jb.i < Len(jb.completionsData) THEN jb
                  ELSE JobSavedAll(jb)
  /\ UNCHANGED <<rev, remote, now, run, fleet>>

StatsNext ==
  \/ \E pipeline \in Pipelines, tz \in TimeZones : JobArrive(pipeline, tz)
  \/ \E ok \in BOOLEAN : JobGetCourseInformation(ok)
  \/ \E ok \in BOOLEAN : JobGetEnrolledUsers(ok)
  \/ \E ok \in BOOLEAN : JobUpsertStudents(ok)
  \/ \E ok \in BOOLEAN : JobGetCourseContents(ok)
  \/ \E ok \in BOOLEAN : JobUpsertContent(ok)
  \/ \E ok \in BOOLEAN : JobGetActivitiesCompletion(ok)
  \/ \E ok \in BOOLEAN : JobUpsertCompletions(ok)
  \/ \E ok \in BOOLEAN : JobUpsertStudentStatistics(ok)
  \/ \E ok \in BOOLEAN : JobUpsertActivityStatistics(ok)
  \/ JobCalculateStatistics
  \/ \E ok \in BOOLEAN : JobSaveStudents(ok)
  \/ \E ok \in BOOLEAN : JobSaveCourseContent(ok)
  \/ \E ok \in BOOLEAN : JobSaveStudentStatistics(ok)
  \/ \E ok \in BOOLEAN : JobSaveActivityStatistics(ok)
  \/ \E ok \in BOOLEAN : JobSaveCompletions(ok)

StatsSpec == StatsInit /\ [][StatsNext]_vars

\* ==================================================================
\* Two uploads, of two courses, one after the other
\* ==================================================================
\* the upload of the other course is requested after the first one answered
JobArriveNext(tz) ==
  /\ job.pc = "done"
  /\ job.pipeline = "upload"
  /\ job.courseId # OtherCourse
  /\ job' = [IdleJob EXCEPT !.pc = "getEnrolledUsers",
                            !.pipeline = "upload",
                            !.tz = tz,
                            !.dbAtStart = db,
                            !.courseId = OtherCourse]
  /\ UNCHANGED <<rev, remote, now, faults, db, run, fleet>>

UploadInit ==
  /\ StatsInit
  /\ HasStudents(remote)

UploadNext ==
  \/ \E tz \in TimeZones : JobArrive("upload", tz)
  \/ \E tz \in TimeZones : JobArriveNext(tz)
  \/ \E ok \in BOOLEAN : JobGetEnrolledUsers(ok)
  \/ \E ok \in BOOLEAN : JobUpsertStudents(ok)
  \/ \E ok \in BOOLEAN : JobGetCourseContents(ok)
  \/ \E ok \in BOOLEAN : JobUpsertContent(ok)
  \/ \E ok \in BOOLEAN : JobGetActivitiesCompletion(ok)
  \/ \E ok \in BOOLEAN : JobUpsertCompletions(ok)
  \/ \E ok \in BOOLEAN : JobUpsertStudentStatistics(ok)
  \/ \E ok \in BOOLEAN : JobUpsertActivityStatistics(ok)

UploadSpec == UploadInit /\ [][UploadNext]_vars

\* ==================================================================
\* The three pipelines on one store, one request at a time
\* ==================================================================
NoRequestOpen ==
  /\ job.pc \in {"idle", "done"}
  /\ \A r \in Runs : run[r].pc \in {"idle", "done"}

\* a sync request while no other pipeline is at work
SyncRequest(courseId) ==
  /\ NoRequestOpen
  /\ StartSync(1, courseId)

\* an upload request, or a start of the dashboard script, likewise
JobRequest(pipeline, tz) ==
  /\ NoRequestOpen
  /\ JobArrive(pipeline, tz)

PipelinesNext ==
  \/ \E courseId \in CourseIdParams : SyncRequest(courseId)
  \/ \E r \in Runs, ok \in BOOLEAN : GetCourses(r, ok)
  \/ \E r \in Runs, ok \in BOOLEAN : UpsertCourse(r, ok)
  \/ \E r \in Runs, ok \in BOOLEAN : GetEnrolledUsers(r, ok)
  \/ \E r \in Runs, ok \in BOOLEAN : UpsertEnrollments(r, ok)
  \/ \E r \in Runs, ok \in BOOLEAN : GetCourseContents(r, ok)
  \/ \E r \in Runs, ok \in BOOLEAN : UpsertActivities(r, ok)
  \/ \E r \in Runs : GetActivitiesCompletionStatus(r, TRUE, "")
  \/ \E r \in Runs, message \in {NoCriteriaMessage, OtherMessage} :
        GetActivitiesCompletionStatus(r, FALSE, message)
  \/ \E r \in Runs : Delay(r)
  \/ \E r \in Runs, ok \in BOOLEAN : UpsertCompletions(r, ok)
  \/ \E r \in Runs, ok \in BOOLEAN : UpsertCourseCompletions(r, ok)
  \/ \E r \in Runs : SendResponse(r)
  \/ \E pipeline \in Pipelines, tz \in TimeZones : JobRequest(pipeline, tz)
  \/ \E ok \in BOOLEAN : JobGetCourseInformation(ok)
  \/ \E ok \in BOOLEAN : JobGetEnrolledUsers(ok)
  \/ \E ok \in BOOLEAN : JobUpsertStudents(ok)
  \/ \E ok \in BOOLEAN : JobGetCourseContents(ok)
  \/ \E ok \in BOOLEAN : JobUpsertContent(ok)
  \/ \E ok \in BOOLEAN : JobGetActivitiesCompletion(ok)
  \/ \E ok \in BOOLEAN : JobUpsertCompletions(ok)
  \/ \E ok \in BOOLEAN : JobUpsertStudentStatistics(ok)
  \/ \E ok \in BOOLEAN : JobUpsertActivityStatistics(ok)
  \/ JobCalculateStatistics
  \/ \E ok \in BOOLEAN : JobSaveStudents(ok)
  \/ \E ok \in BOOLEAN : JobSaveCourseContent(ok)
  \/ \E ok \in BOOLEAN : JobSaveStudentStatistics(ok)
  \/ \E ok \in BOOLEAN : JobSaveActivityStatistics(ok)
  \/ \E ok \in BOOLEAN : JobSaveCompletions(ok)

PipelinesSpec == UploadInit /\ [][PipelinesNext]_vars

\* ==================================================================
\* Two syncs of one course that overlap, and an LMS whose data changes
\* ==================================================================
\* the two requests (e.g. a manual trigger during the nightly sync)
Racers == {1, 2}

\* the statuses of student 10 before and after the student completes more
StatusesBefore == CHOOSE s \in StatusLists : Len(s) = 2
StatusesAfter == CHOOSE s \in StatusLists : Len(s) = 3

OverlapInit ==
  /\ rev \in Revisions
  /\ remote = [courses  |-> RemoteCourses,
               users    |-> <<User10, User30, User20>>,
               contents |-> << [id |-> 51, section |-> 1, name |-> "Topic 1",
                                modules |-> <<Module101>>],
                               [id |-> 52, section |-> 2, name |-> "Topic 2",
                                modules |-> <<Module102t>>] >>,
               statuses |-> (10 :> StatusesBefore @@ 20 :> Statuses20),
               groups   |-> << [id |-> 7, name |-> "Group A"] >>]
  /\ now = 0
  /\ faults = 0
  /\ db = EmptyDb
  /\ run = [r \in Runs |-> IdleRun]
  /\ fleet = IdleFleet
  /\ job = IdleJob

\* a request for the course arrives, whatever the other request is doing
OverlapStart(r, courseId) ==
  /\ \A q \in Racers : q < r => run[q].pc # "idle"
  /\ FindCourse(remote.courses, courseId) # Null
  /\ Arrive(r, courseId)
  /\ UNCHANGED <<job, fleet, rev, remote, faults, db>>

\* the LMS: student 10 completes activities
CompletionsChange ==
  /\ remote.statuses[10] = StatusesBefore
  /\ remote' = [remote EXCEPT !.statuses[10] = StatusesAfter]
  /\ UNCHANGED <<job, fleet, rev, now, faults, db, run>>

\* the LMS: student 20 is removed from the course
StudentRemoved ==
  /\ \E n \in DOMAIN remote.users : remote.users[n].id = 20
  /\ remote' = [remote EXCEPT !.users = SelectSeq(@, LAMBDA u : u.id # 20)]
  /\ UNCHANGED <<job, fleet, rev, now, faults, db, run>>

\* no call fails
OverlapNext ==
  \/ \E r \in Racers, courseId \in CourseIdParams : OverlapStart(r, courseId)
  \/ \E r \in Runs : GetCourses(r, TRUE)
  \/ \E r \in Runs : UpsertCourse(r, TRUE)
  \/ \E r \in Runs : GetEnrolledUsers(r, TRUE)
  \/ \E r \in Runs : UpsertEnrollments(r, TRUE)
  \/ \E r \in Runs : GetCourseContents(r, TRUE)
  \/ \E r \in Runs : UpsertActivities(r, TRUE)
  \/ \E r \in Runs : GetCourseGroups(r, TRUE)
  \/ \E r \in Runs : UpsertGroups(r, TRUE)
  \/ \E r \in Runs : GetActivitiesCompletionStatus(r, TRUE, "")
  \/ \E r \in Runs : Delay(r)
  \/ \E r \in Runs : UpsertCompletions(r, TRUE)
  \/ \E r \in Runs : UpsertCourseCompletions(r, TRUE)
  \/ \E r \in Runs : SendResponse(r)
  \/ CompletionsChange
  \/ StudentRemoved

OverlapSpec == OverlapInit /\ [][OverlapNext]_vars

\* ==================================================================
\* Properties
\* ==================================================================
Responded(r, status) ==
  /\ run[r].pc = "done"
  /\ run[r].response # Null
  /\ run[r].response[1].status = status

Events(rn, name) == {n \in DOMAIN rn.log : rn.log[n].name = name}

FailedEvents(rn, name) == {n \in Events(rn, name) : ~rn.log[n].ok}

CourseScopedFetches == {"getCourses", "getEnrolledUsers", "getCourseContents"}

StoreTables ==
  {"courses", "enrollments", "activities", "activity_completions",
   "course_completions", "groups"}

ErrorsOfKind(rn, kind) ==
  {n \in DOMAIN rn.syncResults.errors : rn.syncResults.errors[n].kind = kind}

ErrorsOfStudent(rn, student) ==
  {n \in DOMAIN rn.syncResults.errors :
     /\ rn.syncResults.errors[n].kind = "student"
     /\ rn.syncResults.errors[n].student = student}

RowsOfStudent(rows, student) == {n \in DOMAIN rows : rows[n].student_id = student}

\* ------------------------------------------------------------------ C1
\* C1: when exactly one student of N > 1 fails with an error other than
\* "no completion criteria" and nothing else fails, the run answers
\* success:true, the statuses of the other students are persisted and exactly
\* one error string names the failed student.
C1_PartialFailureTolerated ==
  \A r \in Runs :
    LET rn == run[r] IN
    ( /\ rn.pc = "done"
      /\ Len(rn.students) > 1
      /\ Cardinality(rn.failures) = 1
      /\ \A f \in rn.failures : f.message = OtherMessage
      /\ \A n \in DOMAIN rn.log :
            rn.log[n].ok \/ rn.log[n].name = "getActivitiesCompletionStatus" )
    => \A f \in rn.failures :
         /\ rn.response = <<[status |-> 200, success |-> TRUE]>>
         /\ Cardinality(ErrorsOfStudent(rn, f.student)) = 1
         /\ \A n \in DOMAIN rn.students :
               rn.students[n].id # f.student =>
                 \A m \in DOMAIN remote.statuses[rn.students[n].id] :
                    \E c \in rn.dbAtEnd.activity_completions :
                       /\ c.student_id = rn.students[n].id
                       /\ c.activity_id = remote.statuses[rn.students[n].id][m].cmid

\* ------------------------------------------------------------------ C2
FailureFree(rn) == \A n \in DOMAIN rn.log : rn.log[n].ok

\* two syncs of the same course in immediate succession, both without failure
ResyncedPairs ==
  {r \in Runs : /\ r + 1 \in Runs
                /\ Responded(r, 200) /\ Responded(r + 1, 200)
                /\ run[r].courseId = run[r + 1].courseId
                /\ FailureFree(run[r]) /\ FailureFree(run[r + 1])}

\* C2 (as stated): the second of two immediately successive failure-free
\* syncs leaves every persisted record identical in every field value to what
\* the first left.
C2_ResyncIdenticalInEveryField ==
  \A r \in ResyncedPairs : run[r + 1].dbAtEnd = run[r].dbAtEnd

WithoutField(row, field) == [f \in DOMAIN row \ {field} |-> row[f]]

NeverAccessed(studentId) ==
  \E n \in DOMAIN remote.users :
     remote.users[n].id = studentId /\ remote.users[n].firstaccess = 0

\* a persisted row without the values the sync stamps from the wall clock:
\* updated_at, and the enrollment_date of a student without a first access
Unstamped(row) ==
  IF "enrollment_date" \in DOMAIN row /\ NeverAccessed(row.student_id)
  THEN WithoutField(WithoutField(row, "updated_at"), "enrollment_date")
  ELSE WithoutField(row, "updated_at")

UnstampedTable(table) == {Unstamped(row) : row \in table}

\* C2 (amended): after the second sync every table holds as many rows as
\* after the first, and the rows agree in every field except the clock-stamped
\* ones (updated_at; enrollment_date of a student whose firstaccess is 0).
C2_ResyncIdenticalExceptTimestamps ==
  \A r \in ResyncedPairs :
    \A t \in StoreTables :
      /\ Cardinality(run[r + 1].dbAtEnd[t]) = Cardinality(run[r].dbAtEnd[t])
      /\ UnstampedTable(run[r + 1].dbAtEnd[t]) = UnstampedTable(run[r].dbAtEnd[t])

C2_Witness ==
  \E r \in ResyncedPairs :
    /\ run[r].dbAtEnd.course_completions # {}
    /\ run[r].dbAtEnd.activity_completions # {}
    /\ run[r + 1].dbAtEnd # run[r].dbAtEnd

\* ------------------------------------------------------------------ C3
FetchSucceeded(rn, student) ==
  \E n \in Events(rn, "getActivitiesCompletionStatus") :
     rn.log[n].student = student /\ rn.log[n].ok

\* C3 (as stated, for syncCourse): once a student's completion fetch has
\* succeeded, allCompletions holds exactly one record of that student for
\* every activity of the course, with completion_state 0 for an activity the
\* student has no status entry for.
C3_OneRecordPerStudentAndActivity ==
  \A r \in Runs :
    \A s \in DOMAIN run[r].students, a \in DOMAIN run[r].allActivities :
      FetchSucceeded(run[r], run[r].students[s].id) =>
        Cardinality({n \in DOMAIN run[r].allCompletions :
                       /\ run[r].allCompletions[n].student_id = run[r].students[s].id
                       /\ run[r].allCompletions[n].activity_id =
                             run[r].allActivities[a].activity_id}) = 1

\* ------------------------------------------------------------------ C4
FlagsConsistent(c) ==
  /\ c.is_completed <=> c.completion_state >= 1
  /\ c.is_passed <=> c.completion_state = 2
  /\ c.is_failed <=> c.completion_state = 3

AbsentFromCourseList(courseId) ==
  \A n \in DOMAIN remote.courses : remote.courses[n].id # courseId

\* C5: when the course list was fetched and does not hold the requested
\* course, the run has ended with a 404 failure response after that single
\* fetch, without any upsert and with the store as it was at the start.
C5_NotFoundFailsFast ==
  \A r \in Runs :
    ( /\ Events(run[r], "getCourses") # {}
      /\ FailedEvents(run[r], "getCourses") = {}
      /\ AbsentFromCourseList(run[r].courseId) )
    => /\ run[r].pc = "done"
       /\ run[r].response = <<[status |-> 404, success |-> FALSE]>>
       /\ Len(run[r].log) = 1
       /\ run[r].written = {}
       /\ run[r].dbAtEnd = run[r].dbAtStart

C5_Witness ==
  \E r \in Runs :
    /\ Responded(r, 404)
    /\ AbsentFromCourseList(run[r].courseId)
    /\ run[r].dbAtStart.courses # {}

\* ------------------------------------------------------------------ C6
\* the enrolled users holding a student role (short name 'student' or role 5)
StudentRoleHolders ==
  {remote.users[n].id : n \in
     {m \in DOMAIN remote.users :
        /\ "roles" \in DOMAIN remote.users[m]
        /\ \E role \in Range(remote.users[m].roles) :
              role.shortname = "student" \/ role.roleid = 5}}

\* C6: every enrollment, completion and summary row a run builds or writes,
\* and every completion fetch it issues, is about an enrolled user holding a
\* student role.
C6_OnlyStudentRoleHolders ==
  LET holders == StudentRoleHolders IN
  \A r \in Runs :
    /\ \A w \in run[r].written : w.student_id \in holders
    /\ \A n \in DOMAIN run[r].allCompletions :
          run[r].allCompletions[n].student_id \in holders
    /\ \A n \in DOMAIN run[r].summaries :
          run[r].summaries[n].student_id \in holders
    /\ \A n \in Events(run[r], "getActivitiesCompletionStatus") :
          run[r].log[n].student \in holders

C6_Witness ==
  \E r \in Runs :
    /\ Responded(r, 200)
    /\ \E n \in DOMAIN remote.users : remote.users[n].id \notin StudentRoleHolders
    /\ \E w \in run[r].written : w.table = "enrollments" /\ w.student_id = 20
    /\ \E w \in run[r].written : w.table = "activity_completions" /\ w.student_id = 20
    /\ \E w \in run[r].written : w.table = "course_completions" /\ w.student_id = 10

\* ------------------------------------------------------------------ C7
PastStudentLoop(rn) ==
  rn.pc \in {"upsertCompletions", "upsertCourseCompletions", "respond", "done"}

\* C7: a completion fetch that failed with a "No completion criteria" message
\* leaves no error string and no record for that student, does not end the
\* run with a failure, and the loop goes on to fetch every later student.
C7_NoCriteriaSkippedSilently ==
  \A r \in Runs :
    \A f \in run[r].failures :
      f.message = NoCriteriaMessage =>
        /\ ErrorsOfStudent(run[r], f.student) = {}
        /\ RowsOfStudent(run[r].allCompletions, f.student) = {}
        /\ run[r].response \in {Null, <<[status |-> 200, success |-> TRUE]>>}
        /\ PastStudentLoop(run[r]) =>
              \A n \in DOMAIN run[r].students :
                 \E e \in Events(run[r], "getActivitiesCompletionStatus") :
                    run[r].log[e].student = run[r].students[n].id

C7_Witness ==
  \E r \in Runs :
    /\ rev = "r2"
    /\ Responded(r, 200)
    /\ Len(run[r].students) = 2
    /\ run[r].failures = {[student |-> 10, message |-> NoCriteriaMessage]}
    /\ FetchSucceeded(run[r], 20)
    /\ run[r].syncResults.errors = <<>>

\* ------------------------------------------------------------------ C8
CeilDiv(a, b) == (a + b - 1) \div b

\* the number of rows in the j-th completions batch (j = 1, 2, ...)
BatchLength(rn, j) ==
  Len(Slice(rn.allCompletions, (j - 1) * batchSize, j * batchSize))

\* the outcomes of the completions batches so far, in order
BatchOutcomes(rn) ==
  SelectSeq(rn.log, LAMBDA e : e.name = "activity_completions")

RECURSIVE FailedBatchRows(_, _, _)
FailedBatchRows(rn, outcomes, j) ==
  IF j = 0 THEN 0
  ELSE FailedBatchRows(rn, outcomes, j - 1)
         + (IF outcomes[j].ok THEN 0 ELSE BatchLength(rn, j))

\* the rows an upsert of the table carries
RowsAttempted(rn, table) ==
  CASE table = "courses"              -> 1
    [] table = "enrollments"          -> Len(rn.students)
    [] table = "activities"           -> Len(rn.allActivities)
    [] table = "groups"               -> Len(rn.courseGroups)
    [] table = "course_completions"   -> Len(rn.students)
    [] table = "activity_completions" ->
          LET outcomes == BatchOutcomes(rn)
          IN FailedBatchRows(rn, outcomes, Len(outcomes))

TallyKind(table) ==
  CASE table = "courses"              -> "course"
    [] table = "enrollments"          -> "enrollments"
    [] table = "activities"           -> "activities"
    [] table = "groups"               -> "groups"
    [] table = "course_completions"   -> "courseCompletions"
    [] table = "activity_completions" -> "completions"

NoCourseScopedFetchFailed(rn) ==
  \A name \in CourseScopedFetches : FailedEvents(rn, name) = {}

\* the upserts a run that has answered must have attempted
AllUpsertsAttempted(rn) ==
  /\ Cardinality(Events(rn, "courses")) = 1
  /\ Cardinality(Events(rn, "enrollments")) = IF Len(rn.students) > 0 THEN 1 ELSE 0
  /\ Cardinality(Events(rn, "activities")) = IF Len(rn.allActivities) > 0 THEN 1 ELSE 0
  /\ Cardinality(Events(rn, "activity_completions")) =
        CeilDiv(Len(rn.allCompletions), batchSize)
  /\ Cardinality(Events(rn, "course_completions")) =
        IF \E n \in DOMAIN rn.allActivities : rn.allActivities[n].has_completion
        THEN 1 ELSE 0

\* C8: a failed upsert of any table is tallied under its kind with the rows
\* it carried and leaves one error string per failed upsert; the run goes on
\* after it: unless a course-scoped fetch fails, the run attempts every later
\* upsert, every later completions batch included, and answers success:true.
C8_UpsertFailureTalliedAndRunContinues ==
  \A r \in Runs :
    LET rn == run[r] IN
    /\ \A t \in StoreTables :
          FailedEvents(rn, t) # {} =>
            /\ rn.syncResults[TallyKind(t)].failed = RowsAttempted(rn, t)
            /\ Cardinality(ErrorsOfKind(rn, TallyKind(t))) =
                  Cardinality(FailedEvents(rn, t))
            /\ rn.response # <<[status |-> 404, success |-> FALSE]>>
            /\ (Len(rn.log) \in FailedEvents(rn, t) /\ rn.pc = "done")
                  => rn.response = <<[status |-> 200, success |-> TRUE]>>
    /\ (rn.pc = "done" /\ NoCourseScopedFetchFailed(rn)
          /\ ~AbsentFromCourseList(rn.courseId))
         => /\ rn.response = <<[status |-> 200, success |-> TRUE]>>
            /\ AllUpsertsAttempted(rn)

C8_Witness ==
  \E r \in Runs :
    /\ Responded(r, 200)
    /\ Len(BatchOutcomes(run[r])) >= 2
    /\ ~BatchOutcomes(run[r])[1].ok
    /\ BatchOutcomes(run[r])[Len(BatchOutcomes(run[r]))].ok
    /\ run[r].syncResults.completions.failed = BatchLength(run[r], 1)
    /\ run[r].syncResults.completions.success > 0
    /\ Events(run[r], "course_completions") # {}

\* ------------------------------------------------------------------ C9
\* C9: a failed fetch of the course list, the enrolled users or the course
\* contents is the last thing the run does: the run has ended with a
\* success:false response and no later fetch or upsert.
C9_CourseScopedFetchFailureAborts ==
  \A r \in Runs :
    \A name \in CourseScopedFetches :
      \A n \in FailedEvents(run[r], name) :
        /\ n = Len(run[r].log)
        /\ run[r].pc = "done"
        /\ run[r].response = <<[status |-> 500, success |-> FALSE]>>

C9_Witness ==
  \E r \in Runs :
    /\ Responded(r, 500)
    /\ FailedEvents(run[r], "getCourseContents") # {}
    /\ Len(run[r].students) = 2
    /\ Events(run[r], "getActivitiesCompletionStatus") = {}
    /\ Events(run[r], "course_completions") = {}

\* ----------------------------------------------------------------- C10
\* the student's completed records that belong to a tracked activity
CompletedTracked(rn, student) ==
  {n \in DOMAIN rn.allCompletions :
     /\ rn.allCompletions[n].student_id = student
     /\ rn.allCompletions[n].is_completed
     /\ \E a \in DOMAIN rn.allActivities :
           /\ rn.allActivities[a].activity_id = rn.allCompletions[n].activity_id
           /\ rn.allActivities[a].has_completion}

\* C10 (as stated): in every summary row a sync computes, completed_activities
\* counts the student's completed records of tracked activities only, so it is
\* at most total_activities and the percentage is at most 100.
C10_SummaryCountsTrackedOnly ==
  \A r \in Runs :
    \A n \in DOMAIN run[r].summaries :
      LET row == run[r].summaries[n] IN
      /\ row.completed_activities =
            Cardinality(CompletedTracked(run[r], row.student_id))
      /\ row.completed_activities <= row.total_activities
      /\ row.completion_percentage >= 0
      /\ row.completion_percentage <= 100 * 100

\* ----------------------------------------------------------------- C11
\* C11 (as stated): a run that got past the completions step has computed one
\* summary row for every student of the run, also when the course has no
\* trackable activity (then with percentage 0 and not completed), and the
\* stored row of each of its students carries the stamp of this run.
C11_SummaryRecomputedForEveryStudent ==
  \A r \in Runs :
    LET rn == run[r] IN
    (Responded(r, 200) /\ FailedEvents(rn, "course_completions") = {}) =>
      \A s \in DOMAIN rn.students :
        /\ \E n \in DOMAIN rn.summaries :
              /\ rn.summaries[n].student_id = rn.students[s].id
              /\ Len(trackableActivities(rn.allActivities)) = 0 =>
                    /\ rn.summaries[n].completion_percentage = 0
                    /\ ~rn.summaries[n].is_course_completed
        /\ \E row \in rn.dbAtEnd.course_completions :
              /\ row.course_id = rn.courseId
              /\ row.student_id = rn.students[s].id
              /\ \A q \in Runs : q < r => row.updated_at # NewDate(q)

\* ----------------------------------------------------------------- C12
\* the time_completed values of the student's completed records of tracked
\* activities
TrackedCompletionTimes(rn, student) ==
  {rn.allCompletions[n].time_completed[1] :
     n \in {m \in CompletedTracked(rn, student) :
              rn.allCompletions[m].time_completed # Null}}

MaxOf(S) == CHOOSE x \in S : \A y \in S : y <= x

\* C12 (as stated): in every summary row a sync computes, completion_date is
\* null when the course is not completed and otherwise the greatest
\* time_completed of the student's completed tracked records, whatever the
\* order of the statuses.
C12_CompletionDateIsLatest ==
  \A r \in Runs :
    \A n \in DOMAIN run[r].summaries :
      LET row   == run[r].summaries[n]
          times == TrackedCompletionTimes(run[r], row.student_id)
      IN IF ~row.is_course_completed \/ times = {}
         THEN row.completion_date = Null
         ELSE row.completion_date = <<MaxOf(times)>>

\* ----------------------------------------------------------------- C13
\* the ids of the fetched courses the driver has to sync
ToSyncIds(courses) ==
  {courses[n].id : n \in {m \in DOMAIN courses :
                            courses[m].visible = 1 /\ courses[m].id > 1}}

Active(r) == run[r].pc \notin {"idle", "done"}

C14_FleetFailureNeverStopsBatch ==
  /\ fleet.successCount + fleet.failCount = Len(fleet.results)
  /\ \A n \in DOMAIN fleet.results :
        /\ fleet.results[n].courseId = fleet.posted[n]
        /\ fleet.results[n].success <=> Responded(n, 200)
  /\ (fleet.pc = "done" /\ fleet.response[1].status = 200) =>
        LET summary == fleet.response[1].summary IN
        /\ summary.total = summary.success + summary.failed
        /\ summary.total = Len(fleet.response[1].results)
        /\ summary.total = Cardinality(ToSyncIds(fleet.courses))
        /\ Len(fleet.posted) = summary.total

C14_Witness ==
  /\ fleet.pc = "done"
  /\ fleet.response[1].status = 200
  /\ Len(fleet.results) = 2
  /\ ~fleet.results[1].success
  /\ Responded(1, 500)
  /\ fleet.results[2].success
  /\ fleet.response[1].summary = [total |-> 2, success |-> 1, failed |-> 1]

\* ----------------------------------------------------------------- C15
\* the ids of the activities the LMS lists, and of those it tracks
RemoteModules ==
  UNION {Range(remote.contents[n].modules) :
           n \in {m \in DOMAIN remote.contents : "modules" \in DOMAIN remote.contents[m]}}

TrackedIds ==
  {m.id : m \in {x \in RemoteModules : "completion" \in DOMAIN x /\ x.completion > 0}}

\* the activities of the course for which the LMS reports one of the given
\* states for the student, if the job fetched the student's statuses
IdsInState(student, states) ==
  IF student \notin job.fetched THEN {}
  ELSE {m.id : m \in {x \in RemoteModules :
                        \E st \in Range(remote.statuses[student]) :
                          /\ st.cmid = x.id
                          /\ "state" \in DOMAIN st
                          /\ st.state \in states}}

\* C15: the counts and the percentage of a student's statistics are taken
\* over the tracked activities only, and the statistics of an untracked
\* activity show no completion, whatever the students did with it.
C15_UntrackedActivitiesExcluded ==
  /\ \A n \in DOMAIN job.studentStats :
        LET row == job.studentStats[n] IN
        /\ row.totalactivities = Cardinality(TrackedIds)
        /\ row.activitiescompleted =
              Cardinality(IdsInState(row.studentid, {1, 2, 3}) \cap TrackedIds)
        /\ row.activitiespassed =
              Cardinality(IdsInState(row.studentid, {2}) \cap TrackedIds)
        /\ row.activitiesfailed =
              Cardinality(IdsInState(row.studentid, {3}) \cap TrackedIds)
        /\ row.completionpercentage =
              Percentage(Cardinality(IdsInState(row.studentid, {1, 2, 3}) \cap TrackedIds),
                         Cardinality(TrackedIds))
  /\ \A n \in DOMAIN job.activityStats :
        LET row == job.activityStats[n] IN
        row.activityid \notin TrackedIds =>
          /\ ~row.hastracking
          /\ row.studentscompleted = 0
          /\ row.completionrate = 0
          /\ row.passrate = 0

C15_Witness ==
  /\ job.pc = "done"
  /\ job.response[1].status = 200
  /\ \E n \in DOMAIN job.studentStats :
        /\ job.studentStats[n].totalactivities = 1
        /\ IdsInState(job.studentStats[n].studentid, {1, 2, 3}) \ TrackedIds # {}
        /\ job.studentStats[n].activitiescompleted = 0
  /\ \E n \in DOMAIN job.activityStats :
        /\ ~job.activityStats[n].hastracking
        /\ \E c \in Range(job.completionsData) :
              c.activityid = job.activityStats[n].activityid /\ c.iscompleted

\* ----------------------------------------------------------------- C16
\* value is part / whole * 100 rounded to hundredths (0 when whole is 0)
IsPercentage(value, part, whole) ==
  IF whole = 0 THEN value = 0
  ELSE /\ 2 * (value * whole - 10000 * part) <= whole
       /\ 2 * (10000 * part - value * whole) <= whole

\* C16: in every student's statistics remaining = total - completed >= 0,
\* passed + failed <= completed <= total, the completion percentage is
\* completed / total * 100 and the pass percentage passed / completed * 100,
\* each 0 when its denominator is 0.
C16_StudentStatisticsArithmetic ==
  \A n \in DOMAIN job.studentStats :
    LET row == job.studentStats[n] IN
    /\ row.activitiesremaining = row.totalactivities - row.activitiescompleted
    /\ row.activitiesremaining >= 0
    /\ row.activitiespassed + row.activitiesfailed <= row.activitiescompleted
    /\ row.activitiescompleted <= row.totalactivities
    /\ IsPercentage(row.completionpercentage, row.activitiescompleted, row.totalactivities)
    /\ IsPercentage(row.passpercentage, row.activitiespassed, row.activitiescompleted)

C16_Witness ==
  /\ job.pc = "done"
  /\ \E n \in DOMAIN job.studentStats :
        LET row == job.studentStats[n] IN
        /\ row.totalactivities = 2
        /\ row.activitiescompleted = 2
        /\ row.activitiespassed = 1
        /\ row.completionpercentage = 100 * 100
        /\ row.passpercentage = 50 * 100
  /\ \E n \in DOMAIN job.studentStats :
        /\ job.studentStats[n].activitiescompleted = 0
        /\ job.studentStats[n].passpercentage = 0

\* ----------------------------------------------------------------- C17
\* the largest number of trackable activities for which the levels are compared
MaxTrackable == 10

\* the level the thresholds give to a percentage (in hundredths)
LevelOfPercentage(percentage) ==
  IF percentage >= 90 * 100 THEN "Excellent"
  ELSE IF percentage >= 70 * 100 THEN "Good"
  ELSE IF percentage >= 50 * 100 THEN "Average"
  ELSE IF percentage >= 30 * 100 THEN "Below Average"
  ELSE "Poor"

ExampleCompletions ==
  [n \in 1..10 |->
     [studentid |-> n, activityid |-> 101, hascompletiontracking |-> TRUE,
      iscompleted |-> n <= 4, ispassed |-> n <= 3, isfailed |-> FALSE]]

ExampleActivity == [activityid |-> 101, hascompletion |-> TRUE]

\* C18: in every activity's statistics not-started = total - completed,
\* passed + failed <= completed <= total, the completion rate is
\* completed / total * 100 and the pass rate passed / completed * 100 (0 when
\* nobody completed); 10 students of whom 4 completed and 3 passed give
\* 40.00, 75.00 and 6 not started.
C18_ActivityStatisticsArithmetic ==
  /\ \A n \in DOMAIN job.activityStats :
        LET row == job.activityStats[n] IN
        /\ row.studentsnotstarted = row.totalstudents - row.studentscompleted
        /\ row.studentscompleted + row.studentsnotstarted = row.totalstudents
        /\ row.studentspassed + row.studentsfailed <= row.studentscompleted
        /\ row.studentscompleted <= row.totalstudents
        /\ row.totalstudents = Len(job.students)
        /\ IsPercentage(row.completionrate, row.studentscompleted, row.totalstudents)
        /\ IsPercentage(row.passrate, row.studentspassed, row.studentscompleted)
  /\ LET row == ActivityStatistics(ExampleActivity, ExampleCompletions, 10) IN
        /\ row.completionrate = 40 * 100
        /\ row.passrate = 75 * 100
        /\ row.studentsnotstarted = 6

C18_Witness ==
  /\ job.pc = "done"
  /\ \E n \in DOMAIN job.activityStats :
        LET row == job.activityStats[n] IN
        /\ row.totalstudents = 3
        /\ row.studentscompleted = 2
        /\ row.studentsnotstarted = 1
        /\ row.completionrate = 6667
        /\ row.passrate = 100 * 100
  /\ \E n \in DOMAIN job.activityStats :
        /\ job.activityStats[n].hastracking
        /\ job.activityStats[n].studentspassed < job.activityStats[n].studentscompleted

\* ----------------------------------------------------------------- C19
\* the LMS user of a statistics row
UserOf(studentid) ==
  CHOOSE u \in Range(job.students) : u.id = studentid

\* the user's last course access lies at most 7 days before the clock
AccessedWithin7Days(user, t) ==
  /\ "lastcourseaccess" \in DOMAIN user
  /\ user.lastcourseaccess # 0
  /\ t - user.lastcourseaccess <= 7 * DaySeconds

\* C19 (as stated): in both pipelines a student's isactive is true exactly
\* when the last course access the LMS reports lies within 7 days of now.
C19_ActiveWithinSevenDays ==
  \A n \in DOMAIN job.studentStats :
    job.studentStats[n].isactive <=>
      AccessedWithin7Days(UserOf(job.studentStats[n].studentid), now)

\* ----------------------------------------------------------------- C20
\* the sequences that hold the elements of s in another order
Reordered(s) ==
  {[n \in DOMAIN s |-> s[p[n]]] :
     p \in {q \in [DOMAIN s -> DOMAIN s] : \A a, b \in DOMAIN s : a # b => q[a] # q[b]}}

\* the section with its activities in any order
ReorderedSection(section) ==
  IF "modules" \in DOMAIN section
  THEN {[section EXCEPT !.modules = ms] : ms \in Reordered(section.modules)}
  ELSE {section}

\* the course contents with the sections and the activities of each section in
\* any order
Reorderings(contents) ==
  UNION { {f \in [DOMAIN contents ->
                    UNION {ReorderedSection(contents[n]) : n \in DOMAIN contents}] :
             \A n \in DOMAIN contents : f[n] \in ReorderedSection(order[n])} :
          order \in Reordered(contents) }

\* C20: flattening the course contents gives the same set of activity
\* records whatever the order of the sections and of the activities within a
\* section, in the job's flattening and in the flattening of the sync.
C20_FlatteningIsOrderIndependent ==
  \A other \in Reorderings(remote.contents) :
    /\ Range(flatContent(other)) = Range(flatContent(remote.contents))
    /\ Range(FlattenContents(other, job.courseId, now))
          = Range(FlattenContents(remote.contents, job.courseId, now))
    /\ job.flatContent # <<>> => Range(flatContent(other)) = Range(job.flatContent)

C20_Witness ==
  /\ Len(job.flatContent) = 2
  /\ \E other \in Reorderings(remote.contents) :
        /\ flatContent(other) # job.flatContent
        /\ other[1].section # remote.contents[1].section
  /\ \E other \in Reorderings(remote.contents) :
        /\ flatContent(other) # job.flatContent
        /\ other[1].section = remote.contents[1].section

\* ----------------------------------------------------------------- C24
\* the log positions of one kind of call that come before position n
Before(rn, name, n) == {m \in Events(rn, name) : m < n}

\* C24: the steps of one run are strictly ordered: the course upsert comes
\* before the enrolled-users fetch, the enrollment upsert before the contents
\* fetch, the activity upsert before the first completion fetch, every
\* student's completion fetch before the first completions batch, every batch
\* before the summary upsert; the run awaits one call at a time, so each call
\* finds all the calls of the earlier steps finished.
C24_StepsStrictlyOrdered ==
  \A r \in Runs :
    LET rn == run[r] IN
    /\ \A n \in Events(rn, "getEnrolledUsers") :
          /\ Cardinality(Before(rn, "courses", n)) = 1
          /\ Events(rn, "courses") = Before(rn, "courses", n)
    /\ \A n \in Events(rn, "getCourseContents") :
          /\ Len(rn.students) > 0 => Cardinality(Before(rn, "enrollments", n)) = 1
          /\ Events(rn, "enrollments") = Before(rn, "enrollments", n)
          /\ Events(rn, "getEnrolledUsers") = Before(rn, "getEnrolledUsers", n)
    /\ \A n \in Events(rn, "getActivitiesCompletionStatus") :
          /\ Len(rn.allActivities) > 0 => Cardinality(Before(rn, "activities", n)) = 1
          /\ Events(rn, "activities") = Before(rn, "activities", n)
          /\ Events(rn, "getCourseContents") = Before(rn, "getCourseContents", n)
    /\ \A n \in Events(rn, "activity_completions") :
          /\ Cardinality(Before(rn, "getActivitiesCompletionStatus", n)) = Len(rn.students)
          /\ Events(rn, "getActivitiesCompletionStatus") =
                Before(rn, "getActivitiesCompletionStatus", n)
    /\ \A n \in Events(rn, "course_completions") :
          /\ Cardinality(Before(rn, "activity_completions", n)) =
                CeilDiv(Len(rn.allCompletions), batchSize)
          /\ Events(rn, "activity_completions") = Before(rn, "activity_completions", n)
          /\ Cardinality(Events(rn, "course_completions")) = 1
    /\ rn.pc \in {"idle", "done"} \/ rn.response = Null

\* a run that went through every step: two students, two batches, a summary
C24_Witness ==
  \E r \in Runs :
    /\ Responded(r, 200)
    /\ Len(run[r].students) = 2
    /\ Cardinality(Events(run[r], "activity_completions")) >= 2
    /\ Cardinality(Events(run[r], "course_completions")) = 1
    /\ Cardinality(Events(run[r], "enrollments")) = 1
    /\ Cardinality(Events(run[r], "activities")) = 1

\* ----------------------------------------------------------------- C25
\* C25 (as stated): between every two consecutive completion fetches of a run
\* the inter-call delay has elapsed, whether the earlier fetch succeeded or
\* failed.
C25_DelayBetweenConsecutiveFetches ==
  \A r \in Runs :
    LET rn == run[r] IN
    \A a, b \in Events(rn, "getActivitiesCompletionStatus") :
      a < b => \E d \in Events(rn, "setTimeout") : a < d /\ d < b

\* ----------------------------------------------------------------- C26
\* the persisted completed records of one student of one course
PersistedCompleted(database, courseId, student) ==
  {c \in database.activity_completions :
     c.course_id = courseId /\ c.student_id = student /\ c.is_completed}

NoUpsertFailed(rn) == \A t \in StoreTables : FailedEvents(rn, t) = {}

\* C26 (as stated): after any sequence of runs in which only student fetches
\* may fail, every persisted summary row counts exactly the persisted
\* completed records of its student; a run in which the student's fetch fails
\* does not leave a zero summary next to the records of an earlier run.
C26_SummaryMatchesPersistedRecords ==
  (\A r \in Runs : run[r].pc \in {"idle", "done"} /\ NoUpsertFailed(run[r])) =>
    \A row \in db.course_completions :
      row.completed_activities =
        Cardinality(PersistedCompleted(db, row.course_id, row.student_id))

\* ----------------------------------------------------------------- C28
Tallied(rn, kind) == rn.syncResults[kind].success + rn.syncResults[kind].failed

\* the records of the upserts of a table the run has attempted so far
Attempted(rn, table) ==
  CASE table = "courses"              -> Cardinality(Events(rn, "courses"))
    [] table = "enrollments"          ->
          IF Events(rn, "enrollments") = {} THEN 0 ELSE Len(rn.students)
    [] table = "activities"           ->
          IF Events(rn, "activities") = {} THEN 0 ELSE Len(rn.allActivities)
    [] table = "activity_completions" ->
          IF Events(rn, "activity_completions") = {} THEN 0
          ELSE Min(Cardinality(Events(rn, "activity_completions")) * batchSize,
                   Len(rn.allCompletions))
    [] table = "course_completions"   ->
          IF Events(rn, "course_completions") = {} THEN 0 ELSE Len(rn.students)

FailedUpserts(rn) ==
  {n \in DOMAIN rn.log : rn.log[n].op = "upsert" /\ ~rn.log[n].ok}

\* C28: in the tally of a run, success + failed of every kind is the number
\* of records attempted; in the answer of a run that went to the end: 1
\* course, the filtered students as enrollments (0 + 0 when there are none),
\* the flattened activities, all accumulated completion records over all
\* batches, the last partial one included, and the students as summaries when
\* a trackable activity exists; the error strings are at least as many as the
\* failed upserts.
C28_TallySumsToAttempted ==
  \A r \in Runs :
    LET rn == run[r] IN
    /\ \A t \in StoreTables \ {"groups"} : Tallied(rn, TallyKind(t)) = Attempted(rn, t)
    /\ Len(rn.syncResults.errors) >= Cardinality(FailedUpserts(rn))
    /\ Responded(r, 200) =>
          /\ Tallied(rn, "course") = 1
          /\ Tallied(rn, "enrollments") = Len(rn.students)
          /\ Tallied(rn, "activities") = Len(rn.allActivities)
          /\ Tallied(rn, "completions") = Len(rn.allCompletions)
          /\ Tallied(rn, "courseCompletions") =
                IF Len(trackableActivities(rn.allActivities)) > 0
                THEN Len(rn.students) ELSE 0

\* an answered run with a failed batch, a partial last batch and summaries
C28_Witness ==
  \E r \in Runs :
    /\ Responded(r, 200)
    /\ Len(run[r].allCompletions) > batchSize
    /\ Len(run[r].allCompletions) % batchSize # 0
    /\ run[r].syncResults.completions.failed > 0
    /\ run[r].syncResults.completions.success > 0
    /\ run[r].syncResults.courseCompletions.success = 2

\* ----------------------------------------------------------------- C29
\* the rows of a table that a run added or changed
RowsWritten(rn, table) == rn.dbAtEnd[table] \ rn.dbAtStart[table]

\* C29 (as stated): a sync of course c writes only rows whose course_id is c,
\* and the upload of another course leaves in place every student_statistics
\* row and every completions row that the earlier upload wrote, also those of
\* a student who is enrolled in both courses.
C29_OtherCoursesRecordsUntouched ==
  /\ \A r \in Runs :
        run[r].pc = "done" =>
          \A t \in StoreTables :
            \A row \in RowsWritten(run[r], t) : row.course_id = run[r].courseId
  /\ job.courseId = OtherCourse =>
        /\ job.dbAtStart.student_statistics \subseteq db.student_statistics
        /\ job.dbAtStart.completions \subseteq db.completions

\* ----------------------------------------------------------------- C30
JobTables ==
  {"students", "course_content", "completions", "student_statistics",
   "activity_statistics"}

JobAborted == job.pc = "done" /\ job.response = <<[status |-> 500, success |-> FALSE]>>

\* C30 (as stated): a sync run that aborts (500) and an upload or a dashboard
\* save that aborts leave the store as it was before the run.
C30_AbortLeavesStoreAsBefore ==
  /\ \A r \in Runs : Responded(r, 500) => run[r].dbAtEnd = run[r].dbAtStart
  /\ JobAborted => job.dbAtEnd = job.dbAtStart

SucceededUpsert(rn, table) == \E n \in Events(rn, table) : rn.log[n].ok

\* the rows the job upserts into a table in one call
JobRows(jb, table) ==
  CASE table = "students"            -> studentsData(jb.students)
    [] table = "course_content"      -> jb.flatContent
    [] table = "student_statistics"  -> jb.studentStats
    [] table = "activity_statistics" -> jb.activityStats

JobKey(table) ==
  CASE table = "students"            -> {"id"}
    [] table = "course_content"      -> {"activityid"}
    [] table = "student_statistics"  -> {"studentid"}
    [] table = "activity_statistics" -> {"activityid"}

\* C30 (amended): nothing is rolled back. A sync run that aborts ends with the
\* failed course-scoped fetch; the tables it had upserted before keep its rows
\* and the other tables are as before the run. An upload or a dashboard save
\* that aborts leaves the tables it had upserted with the rows of the job (of
\* the completions, the batches before the failed one) and the others as
\* before.
C30_AbortKeepsEarlierUpserts ==
  /\ \A r \in Runs :
        LET rn == run[r] IN
        Responded(r, 500) =>
          /\ rn.log[Len(rn.log)].name \in CourseScopedFetches
          /\ ~rn.log[Len(rn.log)].ok
          /\ \A t \in StoreTables :
                IF SucceededUpsert(rn, t)
                THEN \E row \in rn.dbAtEnd[t] \ rn.dbAtStart[t] : row.course_id = rn.courseId
                ELSE rn.dbAtEnd[t] = rn.dbAtStart[t]
  /\ JobAborted =>
        /\ \A t \in JobTables \ {"completions"} :
              job.dbAtEnd[t] = IF t \in job.saved
                      THEN Upsert(job.dbAtStart[t], JobRows(job, t), JobKey(t))
                      ELSE job.dbAtStart[t]
        /\ IF "completions" \in job.saved
           THEN /\ Range(Slice(job.completionsData, 0, batchSize))
                      \subseteq job.dbAtEnd.completions
                /\ job.dbAtEnd.completions \subseteq
                      job.dbAtStart.completions \cup Range(job.completionsData)
           ELSE job.dbAtEnd.completions = job.dbAtStart.completions
        /\ \A t \in StoreTables : job.dbAtEnd[t] = job.dbAtStart[t]

\* a dashboard save that aborted at the completions, with the statistics
\* already saved
C30_Witness ==
  /\ JobAborted
  /\ job.pipeline = "dashboard"
  /\ job.saved = JobTables \ {"completions"}
  /\ job.dbAtEnd.student_statistics # {}
  /\ job.dbAtEnd.completions = {}

\* ----------------------------------------------------------------- C21
WithoutStamp(rows) == [n \in DOMAIN rows |-> WithoutField(rows[n], "updated_at")]

BothFinished == \A r \in Racers : Responded(r, 200)

\* the two runs were given the same answers by the LMS
SameFetched ==
  /\ run[1].course = run[2].course
  /\ run[1].students = run[2].students
  /\ run[1].courseGroups = run[2].courseGroups
  /\ WithoutStamp(run[1].allActivities) = WithoutStamp(run[2].allActivities)
  /\ WithoutStamp(run[1].allCompletions) = WithoutStamp(run[2].allCompletions)

TableKey(table) ==
  CASE table = "courses"              -> CourseKey
    [] table = "enrollments"          -> EnrollmentKey
    [] table = "activities"           -> ActivityKey
    [] table = "activity_completions" -> CompletionKey
    [] table = "course_completions"   -> SummaryKey
    [] table = "groups"               -> GroupKey

\* the rows run rn sends with its next upsert of the table at time t
RowsSent(rn, table, t) ==
  CASE table = "courses"              -> <<courseData(rn.course[1], t)>>
    [] table = "enrollments"          -> enrollmentsData(rn.students, rn.courseId, t)
    [] table = "activities"           -> rn.allActivities
    [] table = "activity_completions" -> Slice(rn.allCompletions, rn.i, rn.i + batchSize)
    [] table = "course_completions"   ->
          courseCompletionsData(rn.students, rn.allCompletions, rn.allActivities,
                                rn.courseId, t)
    [] table = "groups"               -> groupsData(rn.courseGroups, rn.courseId, t)

\* what one run alone, given the answers run rn was given, leaves in a table
SingleRun(rn, table) ==
  IF table = "activity_completions" THEN Range(rn.allCompletions)
  ELSE IF table = "course_completions" /\ Len(trackableActivities(rn.allActivities)) = 0
  THEN {}
  ELSE Range(RowsSent(rn, table, 0))

OneRowPerKey(rows, onConflict) ==
  \A a, b \in rows : ConflictKey(a, onConflict) = ConflictKey(b, onConflict) => a = b

\* run r has just had an upsert of the table go through
JustUpserted(r, table) ==
  /\ Len(run'[r].log) = Len(run[r].log) + 1
  /\ run'[r].log[Len(run'[r].log)] = Event("upsert", table, 0, TRUE)

\* the upsert that just went through holds every key it touched, and the
\* rows of the other keys are as they were
LastUpsertWins ==
  \A r \in Runs, t \in StoreTables :
    JustUpserted(r, t) =>
      LET sent == RowsSent(run[r], t, now) IN
      /\ Range(sent) \subseteq db'[t]
      /\ OneRowPerKey(db'[t], TableKey(t))
      /\ \A old \in db[t] :
            old \in db'[t] \/ \E n \in DOMAIN sent :
                                 ConflictKey(sent[n], TableKey(t)) =
                                    ConflictKey(old, TableKey(t))

\* C21: with a stable upstream two overlapping failure-free runs of a course
\* are harmless: in every interleaving each upsert leaves the keys it touched
\* with its own values (the last writer wins per record), and when both runs
\* have finished, having fetched the same remote data, every table holds, up to
\* the clock-stamped fields, the rows a single run would have left.
C21_OverlapEqualsSingleRun ==
  /\ [](BothFinished /\ SameFetched =>
          \A t \in StoreTables :
            /\ UnstampedTable(db[t]) = UnstampedTable(SingleRun(run[1], t))
            /\ Cardinality(db[t]) = Cardinality(SingleRun(run[1], t)))
  /\ [][LastUpsertWins]_vars

\* both runs finished on the same data, the second having arrived in the
\* middle of the writes of the first
C21_Witness ==
  /\ BothFinished
  /\ SameFetched
  /\ run[2].dbAtStart.courses # {}
  /\ run[2].dbAtStart.course_completions = {}
  /\ run[1].dbAtEnd # run[2].dbAtEnd
  /\ db.course_completions # {}

\* ----------------------------------------------------------------- C22
\* run r has just computed its summaries
JustSummarised(r) ==
  /\ run[r].pc = "upsertCourseCompletions"
  /\ run'[r].pc = "respond"

\* C22 (as stated): the summary step of a run reads the persisted completion
\* records, which an overlapping run may be rewriting: what it computes for a
\* student is the count of the completed records the store holds at that
\* moment.
C22_SummaryReadsPersistedRecords ==
  [][\A r \in Runs :
       JustSummarised(r) =>
         \A n \in DOMAIN run'[r].summaries :
           LET row == run'[r].summaries[n] IN
           row.completed_activities =
             Cardinality(PersistedCompleted(db, row.course_id, row.student_id))]_vars

\* the completed records of a student among those the run fetched itself
OwnCompleted(rn, student) ==
  {m \in DOMAIN rn.allCompletions :
     rn.allCompletions[m].student_id = student /\ rn.allCompletions[m].is_completed}

\* C22 (amended): the summary step reads no persisted record. Whatever an
\* overlapping run has written or is writing, a run computes one summary row
\* per student of its own enrolled list, from the completion records it
\* fetched itself, so no torn set is observed by the computation.
C22_SummaryFromOwnFetch ==
  \A r \in Runs :
    LET rn == run[r] IN
    rn.summaries # <<>> =>
      /\ Len(rn.summaries) = Len(rn.students)
      /\ \A n \in DOMAIN rn.summaries :
            /\ rn.summaries[n].student_id = rn.students[n].id
            /\ rn.summaries[n].completed_activities =
                  Cardinality(OwnCompleted(rn, rn.students[n].id))

\* a run has computed its summaries while the other run is between two of
\* its completion batches, and the store holds another count than the summary
C22_Witness ==
  \E r, q \in Racers :
    /\ r # q
    /\ run[r].pc = "respond"
    /\ run[q].pc = "upsertCompletions"
    /\ run[q].i > 0
    /\ \E n \in DOMAIN run[r].summaries :
          run[r].summaries[n].completed_activities #
            Cardinality(PersistedCompleted(db, run[r].courseId,
                                           run[r].summaries[n].student_id))

\* ----------------------------------------------------------------- C27
\* the remote completion data changed between the fetches of the two runs
FetchedDifferently ==
  WithoutStamp(run[1].allCompletions) # WithoutStamp(run[2].allCompletions)

SummaryMatchesRecords(database) ==
  \A row \in database.course_completions :
    row.completed_activities =
      Cardinality(PersistedCompleted(database, row.course_id, row.student_id))

\* C27 (as stated): when both overlapping runs have finished, having fetched
\* different completion data, the persisted summary of every student counts
\* the persisted completed records of the student: both stem from one run.
C27_SummaryAndRecordsFromOneRun ==
  (BothFinished /\ FetchedDifferently) => SummaryMatchesRecords(db)

\* C27 (amended): when both runs have finished, every persisted summary row
\* and every persisted completion record is the row one of the two runs sent,
\* one row per key; the summary of a student and the records of the student
\* need not stem from the same run.
C27_EachRowFromOneOfTheRuns ==
  (BothFinished /\ FetchedDifferently) =>
    /\ \A row \in db.course_completions :
          \E r \in Racers : row \in Range(run[r].summaries)
    /\ \A rec \in db.activity_completions :
          \E r \in Racers : rec \in Range(run[r].allCompletions)
    /\ OneRowPerKey(db.course_completions, SummaryKey)
    /\ OneRowPerKey(db.activity_completions, CompletionKey)
    /\ \A r \in Racers : \A n \in DOMAIN run[r].students :
          \E row \in db.course_completions : row.student_id = run[r].students[n].id

\* both runs have finished and the summary of student 10 is that of the run
\* that fetched first, next to the records of the run that fetched later
C27_Witness ==
  /\ BothFinished
  /\ FetchedDifferently
  /\ ~SummaryMatchesRecords(db)
  /\ \E row \in db.course_completions :
        /\ row.student_id = 10
        /\ row.completed_activities < Cardinality(PersistedCompleted(db, row.course_id, 10))

\* ----------------------------------------------------------------- C23
\* the second request, if any, arrived when the first run had written all it
\* writes: the runs did not interleave
OneAfterTheOther ==
  run[2].pc # "idle" => run[1].pc = "done" /\ run[2].dbAtStart = run[1].dbAtEnd

EnrolledIds(rn) == {rn.students[n].id : n \in DOMAIN rn.students}

PersistedEnrollments(database, courseId) ==
  {row.student_id : row \in {e \in database.enrollments : e.course_id = courseId}}

\* C23 (as stated): after a failure-free run the persisted enrollments of the
\* course are exactly the students the LMS lists for the course at that run,
\* also when a student enrolled at an earlier sync has been removed since.
C23_EnrollmentsAreLatestRemoteState ==
  OneAfterTheOther =>
    \A r \in Racers :
      Responded(r, 200) =>
        PersistedEnrollments(run[r].dbAtEnd, run[r].courseId) = EnrolledIds(run[r])

====
